---- MODULE Spec2Model ----
(***************************************************************************)
(* Search engine of the graph-search visualizer: Node.py (graph model),    *)
(* SearchAgent.py (eight steppable search algorithms) and the parts of     *)
(* main.py that construct and drive an engine.  Every generator function   *)
(* is modelled segment by segment: one action per stretch of code between  *)
(* two yields (observation points).                                        *)
(***************************************************************************)
EXTENDS Integers, Sequences, FiniteSets, TLC

\* ---------------------------------------------------------------- bounds
NumNodes == 5        \* nodes of the graph
MaxEdges == 3        \* directed edges of a graph of the general family
MaxWeight == 2       \* edge weights are 1..MaxWeight (0..MaxWeight where stated)
MaxHeur == 1         \* heuristic values are 0..MaxHeur
MaxDepth == 2        \* depth parameter of DLS / IDS in the general family
SmallNodes == 3      \* nodes that carry edges in the family of all small graphs
MidNodes == 4        \* nodes that carry edges in the family of sparse cyclic graphs
MidEdges == 4        \* edges of a sparse cyclic graph
MaxDagEdges == 5     \* edges of a left-to-right graph

\* ------------------------------------------------------------- constants
Inf == 1000000       \* float('inf'), Node.get_weight of a missing edge

Nodes == 1..NumNodes
None == 0            \* Python None where a node (name) is expected
Absent == -1         \* key not present in a dict keyed by nodes

VARIABLES
    neighbors,   \* Node.neighbors: node -> sequence of [node, weight] in dict order
    pos,         \* node -> <<x, y>>
    heuristic,   \* Node.heuristic
    graph,       \* SearchAgent.graph: the nodes in the order of graph.values()
    source,      \* SearchAgent.source
    goal,        \* SearchAgent.goal (None when not given)
    goal_nodes,  \* SearchAgent.goal_nodes (list)
    state,       \* Node.state
    parent,      \* Node.parent
    cost,        \* Node.cost
    agent,       \* the SearchAgent's visualization state and metrics
    gen,         \* the running generator: algorithm, position and locals
    menu,        \* the algorithms the caller selects from (algorithm-select)
    dirty,       \* history: the reset of the current run found nodes marked by an earlier run
    track,       \* history: the algorithms whose outcome is kept for comparison
    hist,        \* history: algorithm -> outcome of its finished run
    keep,        \* the caller runs again on the same SearchAgent (else a new one per run)
    logging,     \* history: the observation points of the runs are recorded
    log,         \* history: the observation points of the current run, one per yield
    first,       \* history: the observation points of the run before
    runs,        \* history: the number of runs started while logging
    editor,      \* the runs are started from the editor (GraphVisualizer), which plays them back
    cursor,      \* GraphVisualizer.current_state_index
    edits,       \* history: the number of editing operations done
    undo         \* GraphVisualizer.undo_stack and redo_stack, and the history of the last edit

graphVars == <<neighbors, pos, heuristic, graph, source, goal, goal_nodes, menu, track,
               keep, logging, editor>>
nodeVars == <<state, parent, cost>>
obsVars == <<log, first, runs, cursor, edits, undo>>
vars == <<neighbors, pos, heuristic, graph, source, goal, goal_nodes,
          state, parent, cost, agent, gen, menu, dirty, track, hist,
          keep, logging, log, first, runs, editor, cursor, edits, undo>>

\* ------------------------------------------------------- sequence helpers
Range(s) == {s[i] : i \in 1..Len(s)}

RECURSIVE SetToSeq(_)
SetToSeq(S) ==
    IF S = {} THEN <<>>
    ELSE LET m == CHOOSE e \in S : \A o \in S : e <= o
         IN <<m>> \o SetToSeq(S \ {m})

Reverse(s) == [i \in 1..Len(s) |-> s[Len(s) + 1 - i]]

\* ------------------------------------------------------------------ Node
\* Node.get_neighbors: list(self.neighbors.keys())
get_neighbors(n) == [i \in 1..Len(neighbors[n]) |-> neighbors[n][i].node]

HasEdge(n, m) == \E i \in 1..Len(neighbors[n]) : neighbors[n][i].node = m

get_weight_unit(n, m) == IF HasEdge(n, m) THEN 1 ELSE Inf

\* Node.get_weight: self.neighbors.get(neighbor, float('inf'))
get_weight(n, m) ==
    IF HasEdge(n, m)
    THEN LET i == CHOOSE j \in 1..Len(neighbors[n]) : neighbors[n][j].node = m
         IN neighbors[n][i].weight
    ELSE Inf

Plus_drops_weight(a, b) == a

\* float addition with infinity
Plus(a, b) == IF a >= Inf \/ b >= Inf THEN Inf ELSE a + b

\* Node.f_score: self.cost + self.heuristic
f_score_heuristic_only(c, n) == heuristic[n]

f_score_heuristic_doubled(c, n) == Plus(c[n], 2 * heuristic[n])

f_score(c, n) == Plus(c[n], heuristic[n])

\* ----------------------------------------------------------- SearchAgent
\* key=lambda n: (n.x, n.y): tuple comparison
KeyLess(a, b) ==
    \/ pos[a][1] < pos[b][1]
    \/ pos[a][1] = pos[b][1] /\ pos[a][2] < pos[b][2]

RECURSIVE InsertByKey(_, _)
InsertByKey(s, n) ==
    IF s = <<>> THEN <<n>>
    ELSE IF KeyLess(n, Head(s)) THEN <<n>> \o s
    ELSE <<Head(s)>> \o InsertByKey(Tail(s), n)

\* sorted(list, key=...): stable
RECURSIVE sorted(_)
sorted(s) ==
    IF s = <<>> THEN <<>>
    ELSE InsertByKey(sorted(SubSeq(s, 1, Len(s) - 1)), s[Len(s)])

get_sorted_neighbors_unsorted(n) == get_neighbors(n)

\* SearchAgent.get_sorted_neighbors
get_sorted_neighbors(n) == sorted(get_neighbors(n))

\* SearchAgent.is_goal: node in self.goal_nodes
is_goal(n) == n \in Range(goal_nodes)

\* SearchAgent.get_node_by_name: first node of graph.values() with that name
get_node_by_name(name) ==
    IF \E i \in 1..Len(graph) : graph[i] = name
    THEN graph[CHOOSE i \in 1..Len(graph) :
                 graph[i] = name /\ \A j \in 1..(i - 1) : graph[j] # name]
    ELSE None

\* SearchAgent.__init__: visualization state, metrics, current_node_info
NewAgent ==
    [fringe_list |-> <<>>, visited_list |-> <<>>, traversal_array |-> <<>>,
     path_found |-> <<>>, nodes_explored |-> 0, path_cost |-> 0,
     success |-> FALSE, failure_reason |-> "None", g |-> 0, h |-> 0, f |-> 0]

\* for node in self.graph.values(): the nodes the engine's graph holds
InGraph(n) == n \in Range(graph)

reset_nodes_keep_parent(st, par, cst) ==
    [state |-> [n \in Nodes |-> IF InGraph(n) /\ st[n] \notin {"source", "goal"}
                                THEN "empty" ELSE st[n]],
     parent |-> par,
     cost |-> [n \in Nodes |-> IF InGraph(n) THEN 0 ELSE cst[n]]]

\* SearchAgent.reset_state, the loop over the nodes
reset_nodes(st, par, cst) ==
    [state |-> [n \in Nodes |-> IF InGraph(n) /\ st[n] \notin {"source", "goal"}
                                THEN "empty" ELSE st[n]],
     parent |-> [n \in Nodes |-> IF InGraph(n) THEN None ELSE par[n]],
     cost |-> [n \in Nodes |-> IF InGraph(n) THEN 0 ELSE cst[n]]]

\* SearchAgent.reset_state, the engine's own fields (current_node_info is kept)
reset_state(a) ==
    [a EXCEPT !.fringe_list = <<>>, !.visited_list = <<>>, !.traversal_array = <<>>,
              !.path_found = <<>>, !.nodes_explored = 0, !.path_cost = 0,
              !.success = FALSE, !.failure_reason = "None"]

\* the chain of parent links from n, n first; fuel bounds the walk
RECURSIVE ParentChain(_, _, _)
ParentChain(par, n, fuel) ==
    IF n = None \/ fuel = 0 THEN <<>>
    ELSE <<n>> \o ParentChain(par, par[n], fuel - 1)

reconstruct_path_no_weights(par, goal_node) ==
    LET chain == ParentChain(par, goal_node, NumNodes + 1)
    IN [path |-> Reverse(chain), cost |-> Len(chain) - 1]

reconstruct_path_not_reversed(par, goal_node) ==
    [path |-> ParentChain(par, goal_node, NumNodes + 1),
     cost |-> reconstruct_path_no_weights(par, goal_node).cost]

\* SearchAgent.reconstruct_path: the path, and the cost stored in path_cost
reconstruct_path(par, goal_node) ==
    LET chain == ParentChain(par, goal_node, NumNodes + 1)
        steps == [i \in 1..Len(chain) |->
                    IF par[chain[i]] # None THEN get_weight(par[chain[i]], chain[i]) ELSE 0]
        RECURSIVE Total(_)
        Total(i) == IF i = 0 THEN 0 ELSE Plus(Total(i - 1), steps[i])
    IN [path |-> Reverse(chain), cost |-> Total(Len(chain))]

MarkVisited_skipped(st, n) == st

\* if current.state != 'source' and current.state != 'goal': current.state = 'visited'
MarkVisited(st, n) ==
    IF st[n] # "source" /\ st[n] # "goal" THEN [st EXCEPT ![n] = "visited"] ELSE st

MarkPath_overwrites(st, path) ==
    [n \in Nodes |-> IF n \in Range(path) THEN "path" ELSE st[n]]

\* for node_name in self.path_found: ... node.state = 'path'
MarkPath(st, path) ==
    [n \in Nodes |->
        IF n \in Range(path) /\ get_node_by_name(n) # None /\ st[n] \notin {"source", "goal"}
        THEN "path" ELSE st[n]]

\* ---------------------------------------------- frontiers (PriorityQueue.py)
\* Queue: FIFO; the oldest entry is first
queue_push(q, e) == Append(q, e)
queue_front(q) == Head(q)
queue_pop(q) == Tail(q)

\* Stack: LIFO; the most recently pushed entry is last
stack_push(s, e) == Append(s, e)
stack_top(s) == s[Len(s)]
stack_pop(s) == SubSeq(s, 1, Len(s) - 1)

\* PriorityQueue: entries [node, priority] kept in pop order; among equal
\* priorities the entry pushed first is popped first
pq_contains(q, n) == \E i \in 1..Len(q) : q[i].node = n

pq_remove(q, n) == SelectSeq(q, LAMBDA e : e.node # n)

RECURSIVE pq_insert(_, _)
pq_insert(q, e) ==
    IF q = <<>> THEN <<e>>
    ELSE IF e.priority < Head(q).priority THEN <<e>> \o q
    ELSE <<Head(q)>> \o pq_insert(Tail(q), e)

\* push: the latest priority of a node is the authoritative one
pq_push(q, n, p) == pq_insert(pq_remove(q, n), [node |-> n, priority |-> p])
pq_front(q) == Head(q).node
pq_pop(q) == Tail(q)

\* get_all_nodes of a frontier of nodes / of a priority queue
pq_nodes(q) == [i \in 1..Len(q) |-> q[i].node]
\* fringe of a stack of (node, depth) tuples: n[0].name
tuple_nodes(s) == [i \in 1..Len(s) |-> s[i][1]]

\* ------------------------------------------------------------ generators
Algorithms == {"bfs", "dfs", "dls", "ids", "ucs", "greedy", "astar", "bidirectional"}

NewGen(alg) ==
    [alg |-> alg, pc |-> "idle", frontier |-> <<>>, visited |-> {}, current |-> None,
     depth |-> 0, limit |-> 0, param |-> 0,
     backward |-> <<>>, forward_visited |-> [n \in Nodes |-> Absent],
     backward_visited |-> [n \in Nodes |-> Absent]]

NoRun == [ran |-> FALSE, success |-> FALSE, path_cost |-> 0, nodes_explored |-> 0,
          path_found |-> <<>>, visited_list |-> <<>>, failure_reason |-> "None"]

Outcome(a) == [ran |-> TRUE, success |-> a.success, path_cost |-> a.path_cost,
               nodes_explored |-> a.nodes_explored, path_found |-> a.path_found,
               visited_list |-> a.visited_list, failure_reason |-> a.failure_reason]

\* the searches started from the editor and the editing operations done in
\* one behaviour
MaxEditorRuns == 1
MaxEdits == 2

\* start_search builds a new SearchAgent over the same nodes once the previous
\* sequence is exhausted; a run of a tracked algorithm is started once
CanStart(alg) ==
    /\ gen.pc \in {"idle", "done"}
    /\ alg \in menu
    /\ alg \in track => ~hist[alg].ran
    /\ logging => runs < 2 /\ (runs = 1 => alg = gen.alg)
    /\ editor => source # None /\ goal_nodes # <<>> /\ runs < MaxEditorRuns

\* the SearchAgent a run starts on: the one of the run before, or a new one
Engine == IF keep THEN agent ELSE NewAgent

\* what a yield exposes (capture_search_state): the engine's lists and metrics,
\* current_node_info, and the node states
Observation(a, st) ==
    [fringe_list |-> a.fringe_list, visited_list |-> a.visited_list,
     traversal_array |-> a.traversal_array, path_found |-> a.path_found,
     path_cost |-> a.path_cost, nodes_explored |-> a.nodes_explored,
     success |-> a.success, failure_reason |-> a.failure_reason,
     current_node_info |-> <<a.g, a.h, a.f>>, state |-> st]

\* a step that ends at a yield
Observe ==
    /\ log' = IF logging THEN Append(log, Observation(agent', state')) ELSE log
    /\ UNCHANGED <<first, runs, cursor, edits, undo>>

\* the first step of a run: it ends at the first yield, or returns at once;
\* the second logged run takes the parameter of the first
ObserveStart ==
    IF logging
    THEN /\ runs = 1 => gen'.param = gen.param
         /\ runs' = runs + 1
         /\ first' = log
         /\ log' = IF gen'.pc = "done" THEN <<>> ELSE <<Observation(agent', state')>>
         /\ cursor' = -1
         /\ UNCHANGED <<edits, undo>>
    ELSE UNCHANGED obsVars

Marked == \E n \in Nodes : state[n] \in {"visited", "path"} \/ parent[n] # None \/ cost[n] # 0

AtLoopTop == gen.pc \in {"seeded", "expanded"}

\* GraphVisualizer.clear_path, the loop over the nodes
clear_path(st) ==
    [n \in Nodes |->
        IF ~InGraph(n) THEN st[n]
        ELSE IF n \in Range(goal_nodes) THEN "goal"
        ELSE IF n = source THEN "source"
        ELSE IF st[n] \in {"visited", "path"} THEN "empty"
        ELSE st[n]]

\* GraphVisualizer.restore_search_state, "Restore node states"
restore_node_states(st, node_states) ==
    [n \in Nodes |-> IF InGraph(n) THEN node_states[n] ELSE st[n]]

\* the part every generator starts with: a new SearchAgent, then reset_state();
\* the editor clears the path of the run before first
Begin(alg) ==
    /\ CanStart(alg)
    /\ LET r == reset_nodes(IF editor THEN clear_path(state) ELSE state, parent, cost)
       IN /\ state' = r.state
          /\ parent' = r.parent
          /\ cost' = r.cost
    /\ dirty' = Marked
    /\ UNCHANGED <<graphVars, hist>>

Record_uncounted(a, n) ==
    [a EXCEPT !.visited_list = Append(@, n), !.traversal_array = Append(@, n)]

\* what the processing of the popped node appends (all algorithms)
Record(a, n) ==
    [a EXCEPT !.visited_list = Append(@, n), !.traversal_array = Append(@, n),
              !.nodes_explored = @ + 1]

Succeed_no_path(a, n) == [a EXCEPT !.success = TRUE]

\* the goal branch: success, reconstruct_path, path marking
Succeed(a, n) ==
    LET rp == reconstruct_path(parent, n)
    IN [a EXCEPT !.success = TRUE, !.path_found = rp.path, !.path_cost = rp.cost]

\* --------------------------------------------------- breadth_first_search
BfsStart ==
    /\ Begin("bfs")
    /\ IF goal = None
       THEN /\ agent' = reset_state(Engine)
            /\ gen' = [NewGen("bfs") EXCEPT !.pc = "done"]
       ELSE /\ agent' = [reset_state(Engine) EXCEPT !.fringe_list = <<source>>]
            /\ gen' = [NewGen("bfs") EXCEPT !.pc = "seeded", !.frontier = queue_push(<<>>, source)]
    /\ ObserveStart

BfsPop ==
    /\ gen.alg = "bfs" /\ AtLoopTop /\ gen.frontier # <<>>
    /\ LET current == queue_front(gen.frontier)
           rest == queue_pop(gen.frontier)
       IN /\ gen' = [gen EXCEPT !.pc = "popped", !.current = current, !.frontier = rest]
          /\ agent' = [agent EXCEPT !.fringe_list = rest]
          /\ state' = MarkVisited(state, current)
    /\ dirty' = FALSE
    /\ UNCHANGED <<graphVars, parent, cost, hist>>
    /\ Observe

BfsExhaust ==
    /\ gen.alg = "bfs" /\ AtLoopTop /\ gen.frontier = <<>>
    /\ agent' = [agent EXCEPT !.success = FALSE]
    /\ gen' = [gen EXCEPT !.pc = "final"]
    /\ dirty' = FALSE
    /\ UNCHANGED <<graphVars, nodeVars, hist>>
    /\ Observe

BfsAdmit_no_frontier_test(n, visited, frontier) == n \notin visited

\* if neighbor not in visited and neighbor not in frontier
BfsAdmit(n, visited, frontier) == n \notin visited /\ n \notin Range(frontier)

RECURSIVE BfsExpand(_, _, _, _, _)
BfsExpand(ns, current, visited, frontier, par) ==
    IF ns = <<>> THEN [frontier |-> frontier, parent |-> par]
    ELSE IF BfsAdmit(Head(ns), visited, frontier)
         THEN BfsExpand(Tail(ns), current, visited, queue_push(frontier, Head(ns)),
                        [par EXCEPT ![Head(ns)] = current])
         ELSE BfsExpand(Tail(ns), current, visited, frontier, par)

BfsProcess ==
    /\ gen.alg = "bfs" /\ gen.pc = "popped"
    /\ LET current == gen.current
           visited == gen.visited \cup {current}
           a == Record(agent, current)
       IN IF is_goal(current)
          THEN /\ agent' = Succeed(a, current)
               /\ state' = MarkPath(state, reconstruct_path(parent, current).path)
               /\ gen' = [gen EXCEPT !.pc = "final", !.visited = visited]
               /\ UNCHANGED <<parent, cost>>
          ELSE LET e == BfsExpand(get_sorted_neighbors(current), current, visited,
                                  gen.frontier, parent)
               IN /\ parent' = e.parent
                  /\ agent' = [a EXCEPT !.fringe_list = e.frontier]
                  /\ gen' = [gen EXCEPT !.pc = "expanded", !.visited = visited,
                                        !.frontier = e.frontier]
                  /\ UNCHANGED <<state, cost>>
    /\ dirty' = FALSE
    /\ UNCHANGED <<graphVars, hist>>
    /\ Observe

\* ----------------------------------------------------- depth_first_search
SkipVisited_none(s, visited) == s

\* while not frontier.is_empty(): pop; if current in visited: continue
RECURSIVE SkipVisited(_, _)
SkipVisited(s, visited) ==
    IF s # <<>> /\ stack_top(s) \in visited THEN SkipVisited(stack_pop(s), visited) ELSE s

DfsStart ==
    /\ Begin("dfs")
    /\ IF goal = None
       THEN /\ agent' = reset_state(Engine)
            /\ gen' = [NewGen("dfs") EXCEPT !.pc = "done"]
       ELSE /\ agent' = [reset_state(Engine) EXCEPT !.fringe_list = <<source>>]
            /\ gen' = [NewGen("dfs") EXCEPT !.pc = "seeded", !.frontier = stack_push(<<>>, source)]
    /\ ObserveStart

DfsPop ==
    /\ gen.alg = "dfs" /\ AtLoopTop
    /\ LET s == SkipVisited(gen.frontier, gen.visited)
       IN /\ s # <<>>
          /\ gen' = [gen EXCEPT !.pc = "popped", !.current = stack_top(s),
                                !.frontier = stack_pop(s)]
          /\ agent' = [agent EXCEPT !.fringe_list = stack_pop(s)]
          /\ state' = MarkVisited(state, stack_top(s))
    /\ dirty' = FALSE
    /\ UNCHANGED <<graphVars, parent, cost, hist>>
    /\ Observe

\* the frontier runs empty, possibly after popping entries that were visited
DfsExhaust ==
    /\ gen.alg = "dfs" /\ AtLoopTop
    /\ SkipVisited(gen.frontier, gen.visited) = <<>>
    /\ agent' = [agent EXCEPT !.success = FALSE,
                              !.fringe_list = IF gen.frontier = <<>> THEN @ ELSE <<>>]
    /\ gen' = [gen EXCEPT !.pc = "final", !.frontier = <<>>]
    /\ dirty' = FALSE
    /\ UNCHANGED <<graphVars, nodeVars, hist>>
    /\ Observe

Unvisited_always(n, visited) == TRUE

\* if neighbor not in visited (DFS, DLS, IDS, UCS, A*)
Unvisited(n, visited) == n \notin visited

\* for neighbor in reversed(neighbors): if neighbor not in visited
RECURSIVE DfsExpand(_, _, _, _, _)
DfsExpand(ns, current, visited, frontier, par) ==
    IF ns = <<>> THEN [frontier |-> frontier, parent |-> par]
    ELSE IF Unvisited(Head(ns), visited)
         THEN DfsExpand(Tail(ns), current, visited, stack_push(frontier, Head(ns)),
                        [par EXCEPT ![Head(ns)] = current])
         ELSE DfsExpand(Tail(ns), current, visited, frontier, par)

DfsProcess ==
    /\ gen.alg = "dfs" /\ gen.pc = "popped"
    /\ LET current == gen.current
           visited == gen.visited \cup {current}
           a == Record(agent, current)
       IN IF is_goal(current)
          THEN /\ agent' = Succeed(a, current)
               /\ state' = MarkPath(state, reconstruct_path(parent, current).path)
               /\ gen' = [gen EXCEPT !.pc = "final", !.visited = visited]
               /\ UNCHANGED <<parent, cost>>
          ELSE LET e == DfsExpand(Reverse(get_sorted_neighbors(current)), current, visited,
                                  gen.frontier, parent)
               IN /\ parent' = e.parent
                  /\ agent' = [a EXCEPT !.fringe_list = e.frontier]
                  /\ gen' = [gen EXCEPT !.pc = "expanded", !.visited = visited,
                                        !.frontier = e.frontier]
                  /\ UNCHANGED <<state, cost>>
    /\ dirty' = FALSE
    /\ UNCHANGED <<graphVars, hist>>
    /\ Observe

\* ------------------------------------------------------- end of a sequence
\* the advance after the last yield: the generator returns (StopIteration);
\* start_search then shows the first captured state (animate_next_step)
Return ==
    /\ gen.pc = "final"
    /\ gen' = [gen EXCEPT !.pc = "done"]
    /\ hist' = IF gen.alg \in track THEN [hist EXCEPT ![gen.alg] = Outcome(agent)] ELSE hist
    /\ dirty' = FALSE
    /\ UNCHANGED <<graphVars, parent, cost, agent, log, first, runs, edits, undo>>
    /\ IF editor /\ log # <<>>
       THEN /\ cursor' = 0
            /\ state' = restore_node_states(state, log[1].state)
       ELSE UNCHANGED <<state, cursor>>

\* --------------------------------------------------- depth_limited_search
\* the same skip over a stack of (node, depth) tuples
RECURSIVE SkipVisitedTuples(_, _)
SkipVisitedTuples(s, visited) ==
    IF s # <<>> /\ stack_top(s)[1] \in visited
    THEN SkipVisitedTuples(stack_pop(s), visited) ELSE s

\* for neighbor in reversed(neighbors): if neighbor not in visited: push (neighbor, depth + 1)
RECURSIVE DlsExpand(_, _, _, _, _, _)
DlsExpand(ns, current, depth, visited, frontier, par) ==
    IF ns = <<>> THEN [frontier |-> frontier, parent |-> par]
    ELSE IF Unvisited(Head(ns), visited)
         THEN DlsExpand(Tail(ns), current, depth, visited,
                        stack_push(frontier, <<Head(ns), depth + 1>>),
                        [par EXCEPT ![Head(ns)] = current])
         ELSE DlsExpand(Tail(ns), current, depth, visited, frontier, par)

DlsStart(depth_limit) ==
    /\ Begin("dls")
    /\ IF goal = None
       THEN /\ agent' = reset_state(Engine)
            /\ gen' = [NewGen("dls") EXCEPT !.pc = "done", !.param = depth_limit]
       ELSE /\ agent' = [reset_state(Engine) EXCEPT !.fringe_list = <<source>>]
            /\ gen' = [NewGen("dls") EXCEPT !.pc = "seeded", !.param = depth_limit,
                                            !.limit = depth_limit,
                                            !.frontier = stack_push(<<>>, <<source, 0>>)]
    /\ ObserveStart

\* the pop of DLS and of an IDS iteration
DepthPop(alg) ==
    /\ gen.alg = alg /\ AtLoopTop
    /\ LET s == SkipVisitedTuples(gen.frontier, gen.visited)
       IN /\ s # <<>>
          /\ gen' = [gen EXCEPT !.pc = "popped", !.current = stack_top(s)[1],
                                !.depth = stack_top(s)[2], !.frontier = stack_pop(s)]
          /\ agent' = [agent EXCEPT !.fringe_list = tuple_nodes(stack_pop(s))]
          /\ state' = MarkVisited(state, stack_top(s)[1])
    /\ dirty' = FALSE
    /\ UNCHANGED <<graphVars, parent, cost, hist>>
    /\ Observe

WithinLimit_inclusive(depth, limit) == depth <= limit

\* if depth < depth_limit
WithinLimit(depth, limit) == depth < limit

\* the processing of the popped node in DLS and in an IDS iteration
DepthProcess(alg) ==
    /\ gen.alg = alg /\ gen.pc = "popped"
    /\ LET current == gen.current
           visited == gen.visited \cup {current}
           a == Record(agent, current)
       IN IF is_goal(current)
          THEN /\ agent' = Succeed(a, current)
               /\ state' = MarkPath(state, reconstruct_path(parent, current).path)
               /\ gen' = [gen EXCEPT !.pc = "final", !.visited = visited]
               /\ UNCHANGED <<parent, cost>>
          ELSE LET e == IF WithinLimit(gen.depth, gen.limit)
                        THEN DlsExpand(Reverse(get_sorted_neighbors(current)), current,
                                       gen.depth, visited, gen.frontier, parent)
                        ELSE [frontier |-> gen.frontier, parent |-> parent]
               IN /\ parent' = e.parent
                  /\ agent' = [a EXCEPT !.fringe_list = tuple_nodes(e.frontier)]
                  /\ gen' = [gen EXCEPT !.pc = "expanded", !.visited = visited,
                                        !.frontier = e.frontier]
                  /\ UNCHANGED <<state, cost>>
    /\ dirty' = FALSE
    /\ UNCHANGED <<graphVars, hist>>
    /\ Observe

DlsPop == DepthPop("dls")

DlsProcess == DepthProcess("dls")

DlsExhaust ==
    /\ gen.alg = "dls" /\ AtLoopTop
    /\ SkipVisitedTuples(gen.frontier, gen.visited) = <<>>
    /\ agent' = [agent EXCEPT !.success = FALSE,
                              !.fringe_list = IF gen.frontier = <<>> THEN @ ELSE <<>>]
    /\ gen' = [gen EXCEPT !.pc = "final", !.frontier = <<>>]
    /\ dirty' = FALSE
    /\ UNCHANGED <<graphVars, nodeVars, hist>>
    /\ Observe

\* --------------------------------------------- iterative_deepening_search
\* "Reset for new iteration": node states and parents, not the cost
IdsResetNodes(st) ==
    [n \in Nodes |-> IF InGraph(n) /\ st[n] \notin {"source", "goal"} THEN "empty" ELSE st[n]]

IdsStart(max_depth) ==
    /\ Begin("ids")
    /\ IF goal = None
       THEN /\ agent' = reset_state(Engine)
            /\ gen' = [NewGen("ids") EXCEPT !.pc = "done", !.param = max_depth]
       ELSE /\ agent' = [reset_state(Engine) EXCEPT !.fringe_list = <<source>>]
            /\ gen' = [NewGen("ids") EXCEPT !.pc = "seeded", !.param = max_depth,
                                            !.limit = 0,
                                            !.frontier = stack_push(<<>>, <<source, 0>>)]
    /\ ObserveStart

IdsPop == DepthPop("ids")

IdsProcess == DepthProcess("ids")

LastLimit_one_early(limit, max_depth) == limit + 1 >= max_depth

LastLimit_never(limit, max_depth) == FALSE

\* for limit in range(max_depth + 1): the loop ends after limit = max_depth
LastLimit(limit, max_depth) == limit >= max_depth

NextIteration_cleared(a) ==
    [a EXCEPT !.fringe_list = <<source>>, !.visited_list = <<>>, !.nodes_explored = 0]

\* the head of the for loop writes fringe_list only: visited_list,
\* traversal_array and nodes_explored go on from the iteration before
NextIteration(a) == [a EXCEPT !.fringe_list = <<source>>]

\* the frontier of one iteration ran empty: the next limit is tried
IdsNextLimit ==
    /\ gen.alg = "ids" /\ AtLoopTop
    /\ SkipVisitedTuples(gen.frontier, gen.visited) = <<>>
    /\ ~LastLimit(gen.limit, gen.param)
    /\ state' = IdsResetNodes(state)
    /\ parent' = [n \in Nodes |-> IF InGraph(n) THEN None ELSE parent[n]]
    /\ agent' = NextIteration(agent)
    /\ gen' = [gen EXCEPT !.pc = "seeded", !.limit = @ + 1, !.visited = {},
                          !.frontier = stack_push(<<>>, <<source, 0>>)]
    /\ dirty' = FALSE
    /\ UNCHANGED <<graphVars, cost, hist>>
    /\ Observe

IdsExhaust ==
    /\ gen.alg = "ids" /\ AtLoopTop
    /\ SkipVisitedTuples(gen.frontier, gen.visited) = <<>>
    /\ LastLimit(gen.limit, gen.param)
    /\ agent' = [agent EXCEPT !.success = FALSE,
                              !.fringe_list = IF gen.frontier = <<>> THEN @ ELSE <<>>]
    /\ gen' = [gen EXCEPT !.pc = "final", !.frontier = <<>>]
    /\ dirty' = FALSE
    /\ UNCHANGED <<graphVars, nodeVars, hist>>
    /\ Observe

\* ---------------------------------------------------- uniform_cost_search
\* while not frontier.is_empty(): pop; if current in visited: continue
RECURSIVE SkipVisitedPq(_, _)
SkipVisitedPq(q, visited) ==
    IF q # <<>> /\ pq_front(q) \in visited THEN SkipVisitedPq(pq_pop(q), visited) ELSE q

\* the pop of UCS, greedy and A*, with the current_node_info each sets
PqPop(alg, info) ==
    /\ gen.alg = alg /\ AtLoopTop
    /\ LET q == SkipVisitedPq(gen.frontier, gen.visited)
       IN /\ q # <<>>
          /\ gen' = [gen EXCEPT !.pc = "popped", !.current = pq_front(q),
                                !.frontier = pq_pop(q)]
          /\ agent' = [agent EXCEPT !.fringe_list = pq_nodes(pq_pop(q)),
                                    !.g = info[pq_front(q)].g,
                                    !.h = info[pq_front(q)].h,
                                    !.f = info[pq_front(q)].f]
          /\ state' = MarkVisited(state, pq_front(q))
    /\ dirty' = FALSE
    /\ UNCHANGED <<graphVars, parent, cost, hist>>
    /\ Observe

PqExhaust(alg, reason) ==
    /\ gen.alg = alg /\ AtLoopTop
    /\ SkipVisitedPq(gen.frontier, gen.visited) = <<>>
    /\ agent' = [agent EXCEPT !.success = FALSE,
                              !.failure_reason = reason,
                              !.fringe_list = IF gen.frontier = <<>> THEN @ ELSE <<>>]
    /\ gen' = [gen EXCEPT !.pc = "final", !.frontier = <<>>]
    /\ dirty' = FALSE
    /\ UNCHANGED <<graphVars, nodeVars, hist>>
    /\ Observe

CostAdmit_never_update(n, new_cost, frontier, cst) == ~pq_contains(frontier, n)

\* if neighbor not in frontier or new_cost < neighbor.cost
CostAdmit(n, new_cost, frontier, cst) == ~pq_contains(frontier, n) \/ new_cost < cst[n]

\* the expansion of UCS (priority new_cost) and of A* (priority f_score)
RECURSIVE CostExpand(_, _, _, _, _, _, _)
CostExpand(ns, current, visited, frontier, par, cst, withH) ==
    IF ns = <<>> THEN [frontier |-> frontier, parent |-> par, cost |-> cst]
    ELSE LET n == Head(ns)
             new_cost == Plus(cst[current], get_weight(current, n))
         IN IF Unvisited(n, visited) /\ CostAdmit(n, new_cost, frontier, cst)
            THEN LET c2 == [cst EXCEPT ![n] = new_cost]
                 IN CostExpand(Tail(ns), current, visited,
                               pq_push(frontier, n, IF withH THEN f_score(c2, n) ELSE new_cost),
                               [par EXCEPT ![n] = current], c2, withH)
            ELSE CostExpand(Tail(ns), current, visited, frontier, par, cst, withH)

CostProcess(alg, withH) ==
    /\ gen.alg = alg /\ gen.pc = "popped"
    /\ LET current == gen.current
           visited == gen.visited \cup {current}
           a == Record(agent, current)
       IN IF is_goal(current)
          THEN /\ agent' = Succeed(a, current)
               /\ state' = MarkPath(state, reconstruct_path(parent, current).path)
               /\ gen' = [gen EXCEPT !.pc = "final", !.visited = visited]
               /\ UNCHANGED <<parent, cost>>
          ELSE LET e == CostExpand(get_sorted_neighbors(current), current, visited,
                                   gen.frontier, parent, cost, withH)
               IN /\ parent' = e.parent
                  /\ cost' = e.cost
                  /\ agent' = [a EXCEPT !.fringe_list = pq_nodes(e.frontier)]
                  /\ gen' = [gen EXCEPT !.pc = "expanded", !.visited = visited,
                                        !.frontier = e.frontier]
                  /\ UNCHANGED state
    /\ dirty' = FALSE
    /\ UNCHANGED <<graphVars, hist>>
    /\ Observe

UcsStart ==
    /\ Begin("ucs")
    /\ IF goal = None
       THEN /\ agent' = reset_state(Engine)
            /\ gen' = [NewGen("ucs") EXCEPT !.pc = "done"]
       ELSE /\ agent' = [reset_state(Engine) EXCEPT !.fringe_list = <<source>>]
            /\ gen' = [NewGen("ucs") EXCEPT !.pc = "seeded",
                                            !.frontier = pq_push(<<>>, source, 0)]
    /\ ObserveStart

UcsInfo(n) == [g |-> cost[n], h |-> 0, f |-> cost[n]]

UcsPop == PqPop("ucs", [n \in Nodes |-> UcsInfo(n)])

UcsExhaust == PqExhaust("ucs", "None")

UcsProcess == CostProcess("ucs", FALSE)

\* ---------------------------------------------------------- a_star_search
AStarStart ==
    /\ Begin("astar")
    /\ IF goal = None
       THEN /\ agent' = reset_state(Engine)
            /\ gen' = [NewGen("astar") EXCEPT !.pc = "done"]
       ELSE /\ agent' = [reset_state(Engine) EXCEPT !.fringe_list = <<source>>]
            /\ gen' = [NewGen("astar") EXCEPT
                          !.pc = "seeded",
                          !.frontier = pq_push(<<>>, source,
                                               f_score([n \in Nodes |-> 0], source))]
    /\ ObserveStart

AStarInfo(n) == [g |-> cost[n], h |-> heuristic[n], f |-> f_score(cost, n)]

AStarPop == PqPop("astar", [n \in Nodes |-> AStarInfo(n)])

AStarExhaust == PqExhaust("astar", "None")

AStarProcess == CostProcess("astar", TRUE)

\* ----------------------------------------------- greedy_best_first_search
StuckDeadEnd == "Greedy search got stuck in a dead-end"
Exhausted == "No path found - all reachable nodes explored"

GreedyStart ==
    /\ Begin("greedy")
    /\ IF goal = None
       THEN /\ agent' = reset_state(Engine)
            /\ gen' = [NewGen("greedy") EXCEPT !.pc = "done"]
       ELSE /\ agent' = [reset_state(Engine) EXCEPT !.fringe_list = <<source>>]
            /\ gen' = [NewGen("greedy") EXCEPT
                          !.pc = "seeded",
                          !.frontier = pq_push(<<>>, source, heuristic[source])]
    /\ ObserveStart

GreedyInfo(n) == [g |-> cost[n], h |-> heuristic[n], f |-> heuristic[n]]

GreedyPop == PqPop("greedy", [n \in Nodes |-> GreedyInfo(n)])

\* lines 624-627; the loop is never left this way, the dead-end test comes first
GreedyExhaust == PqExhaust("greedy", Exhausted)

DeadEnd_ignores_frontier(un, frontier) == Len(un) = 0

DeadEnd_never(un, frontier) == FALSE

\* if len(unvisited_neighbors) == 0 and current_frontier_size == 0
DeadEnd(un, frontier) == Len(un) = 0 /\ Len(frontier) = 0

\* [n for n in sorted neighbors if n not in visited and n not in frontier]
unvisited_neighbors(current, visited, frontier) ==
    SelectSeq(get_sorted_neighbors(current),
              LAMBDA n : n \notin visited /\ ~pq_contains(frontier, n))

\* for neighbor in unvisited_neighbors: cost, parent, push with the heuristic
RECURSIVE GreedyExpand(_, _, _, _, _)
GreedyExpand(ns, current, frontier, par, cst) ==
    IF ns = <<>> THEN [frontier |-> frontier, parent |-> par, cost |-> cst]
    ELSE LET n == Head(ns)
         IN GreedyExpand(Tail(ns), current, pq_push(frontier, n, heuristic[n]),
                         [par EXCEPT ![n] = current],
                         [cst EXCEPT ![n] = Plus(cst[current], get_weight(current, n))])

GreedyProcess ==
    /\ gen.alg = "greedy" /\ gen.pc = "popped"
    /\ LET current == gen.current
           visited == gen.visited \cup {current}
           a == Record(agent, current)
       IN IF is_goal(current)
          THEN /\ agent' = Succeed(a, current)
               /\ state' = MarkPath(state, reconstruct_path(parent, current).path)
               /\ gen' = [gen EXCEPT !.pc = "final", !.visited = visited]
               /\ UNCHANGED <<parent, cost>>
          ELSE LET un == unvisited_neighbors(current, visited, gen.frontier)
                   e == GreedyExpand(un, current, gen.frontier, parent, cost)
               IN /\ parent' = e.parent
                  /\ cost' = e.cost
                  /\ UNCHANGED state
                  /\ IF DeadEnd(un, e.frontier)
                     THEN /\ agent' = [a EXCEPT !.success = FALSE,
                                                !.failure_reason = StuckDeadEnd]
                          /\ gen' = [gen EXCEPT !.pc = "final", !.visited = visited,
                                                !.frontier = e.frontier]
                     ELSE /\ agent' = [a EXCEPT !.fringe_list = pq_nodes(e.frontier)]
                          /\ gen' = [gen EXCEPT !.pc = "expanded", !.visited = visited,
                                                !.frontier = e.frontier]
    /\ dirty' = FALSE
    /\ UNCHANGED <<graphVars, hist>>
    /\ Observe

\* --------------------------------------------------- bidirectional_search
BiStart ==
    /\ Begin("bidirectional")
    /\ IF goal = None
       THEN /\ agent' = reset_state(Engine)
            /\ gen' = [NewGen("bidirectional") EXCEPT !.pc = "done"]
       ELSE /\ agent' = [reset_state(Engine) EXCEPT !.fringe_list = <<source, goal>>]
            /\ gen' = [NewGen("bidirectional") EXCEPT
                          !.pc = "seeded",
                          !.frontier = queue_push(<<>>, source),
                          !.backward = queue_push(<<>>, goal),
                          !.forward_visited = [n \in Nodes |-> IF n = source THEN None ELSE Absent],
                          !.backward_visited = [n \in Nodes |-> IF n = goal THEN None ELSE Absent]]
    /\ ObserveStart

\* the chain of a visited-parent map from n, n first
RECURSIVE MapChain(_, _, _)
MapChain(m, n, fuel) ==
    IF n = None \/ n = Absent \/ fuel = 0 THEN <<>>
    ELSE <<n>> \o MapChain(m, m[n], fuel - 1)

MergedPath_backward_reversed(fv, bv, current) ==
    Reverse(MapChain(fv, current, NumNodes + 1))
        \o Reverse(MapChain(bv, bv[current], NumNodes + 1))

MergedPath_repeats_meeting(fv, bv, current) ==
    Reverse(MapChain(fv, current, NumNodes + 1)) \o MapChain(bv, current, NumNodes + 1)

\* forward_path (reversed chain of forward_visited) + backward_path
MergedPath(fv, bv, current) ==
    Reverse(MapChain(fv, current, NumNodes + 1)) \o MapChain(bv, bv[current], NumNodes + 1)

\* "Calculate actual path cost using edge weights"
RECURSIVE MergedCost(_)
MergedCost(path) ==
    IF Len(path) < 2 THEN 0
    ELSE LET from_node == get_node_by_name(path[1])
             to_node == get_node_by_name(path[2])
             w == IF from_node # None /\ to_node # None
                  THEN get_weight(from_node, to_node) ELSE 0
         IN Plus(w, MergedCost(Tail(path)))

\* the two searches met at current
BiMeet(a, fv, bv, current) ==
    LET path == MergedPath(fv, bv, current)
    IN [a EXCEPT !.success = TRUE, !.path_found = path, !.path_cost = MergedCost(path)]

\* the top of the while loop
BiLoopHolds == gen.frontier # <<>> /\ gen.backward # <<>>

BiForwardPop ==
    /\ gen.alg = "bidirectional" /\ gen.pc \in {"seeded", "bexpanded"} /\ BiLoopHolds
    /\ gen' = [gen EXCEPT !.pc = "fpopped", !.current = queue_front(gen.frontier),
                          !.frontier = queue_pop(gen.frontier)]
    /\ state' = MarkVisited(state, queue_front(gen.frontier))
    /\ dirty' = FALSE
    /\ UNCHANGED <<graphVars, parent, cost, agent, hist>>
    /\ Observe

\* for neighbor in sorted neighbors: if neighbor not in forward_visited
RECURSIVE BiForwardExpand(_, _, _, _)
BiForwardExpand(ns, current, frontier, fv) ==
    IF ns = <<>> THEN [frontier |-> frontier, visited |-> fv]
    ELSE IF fv[Head(ns)] = Absent
         THEN BiForwardExpand(Tail(ns), current, queue_push(frontier, Head(ns)),
                              [fv EXCEPT ![Head(ns)] = current])
         ELSE BiForwardExpand(Tail(ns), current, frontier, fv)

BiForwardProcess ==
    /\ gen.alg = "bidirectional" /\ gen.pc = "fpopped"
    /\ LET current == gen.current
           a == Record(agent, current)
       IN IF gen.backward_visited[current] # Absent
          THEN /\ agent' = BiMeet(a, gen.forward_visited, gen.backward_visited, current)
               /\ state' = MarkPath(state, MergedPath(gen.forward_visited,
                                                      gen.backward_visited, current))
               /\ gen' = [gen EXCEPT !.pc = "final"]
          ELSE LET e == BiForwardExpand(get_sorted_neighbors(current), current,
                                        gen.frontier, gen.forward_visited)
               IN /\ agent' = [a EXCEPT !.fringe_list = e.frontier \o gen.backward]
                  /\ gen' = [gen EXCEPT !.pc = "fexpanded", !.frontier = e.frontier,
                                        !.forward_visited = e.visited]
                  /\ UNCHANGED state
    /\ dirty' = FALSE
    /\ UNCHANGED <<graphVars, parent, cost, hist>>
    /\ Observe

BiBackwardPop ==
    /\ gen.alg = "bidirectional" /\ gen.pc = "fexpanded" /\ gen.backward # <<>>
    /\ gen' = [gen EXCEPT !.pc = "bpopped", !.current = queue_front(gen.backward),
                          !.backward = queue_pop(gen.backward)]
    /\ state' = MarkVisited(state, queue_front(gen.backward))
    /\ dirty' = FALSE
    /\ UNCHANGED <<graphVars, parent, cost, agent, hist>>
    /\ Observe

BackwardEdge_forward(other_node, current) == HasEdge(current, other_node)

\* if current in other_node.get_neighbors()
BackwardEdge(other_node, current) == current \in Range(get_neighbors(other_node))

\* for other_node in sorted(graph.values()): ... and other_node not in backward_visited
RECURSIVE BiBackwardExpand(_, _, _, _)
BiBackwardExpand(ns, current, frontier, bv) ==
    IF ns = <<>> THEN [frontier |-> frontier, visited |-> bv]
    ELSE IF BackwardEdge(Head(ns), current) /\ bv[Head(ns)] = Absent
         THEN BiBackwardExpand(Tail(ns), current, queue_push(frontier, Head(ns)),
                               [bv EXCEPT ![Head(ns)] = current])
         ELSE BiBackwardExpand(Tail(ns), current, frontier, bv)

BiBackwardProcess ==
    /\ gen.alg = "bidirectional" /\ gen.pc = "bpopped"
    /\ LET current == gen.current
           a == Record(agent, current)
       IN IF gen.forward_visited[current] # Absent
          THEN /\ agent' = BiMeet(a, gen.forward_visited, gen.backward_visited, current)
               /\ state' = MarkPath(state, MergedPath(gen.forward_visited,
                                                      gen.backward_visited, current))
               /\ gen' = [gen EXCEPT !.pc = "final"]
          ELSE LET e == BiBackwardExpand(sorted(graph), current,
                                         gen.backward, gen.backward_visited)
               IN /\ agent' = [a EXCEPT !.fringe_list = gen.frontier \o e.frontier]
                  /\ gen' = [gen EXCEPT !.pc = "bexpanded", !.backward = e.frontier,
                                        !.backward_visited = e.visited]
                  /\ UNCHANGED state
    /\ dirty' = FALSE
    /\ UNCHANGED <<graphVars, parent, cost, hist>>
    /\ Observe

\* the while condition fails (the backward test inside the loop cannot fail:
\* nothing pops the backward frontier between the loop test and it)
BiExhaust ==
    /\ gen.alg = "bidirectional"
    /\ IF gen.pc = "fexpanded" THEN gen.backward = <<>>
       ELSE gen.pc \in {"seeded", "bexpanded"} /\ ~BiLoopHolds
    /\ agent' = [agent EXCEPT !.success = FALSE]
    /\ gen' = [gen EXCEPT !.pc = "final"]
    /\ dirty' = FALSE
    /\ UNCHANGED <<graphVars, nodeVars, hist>>
    /\ Observe

\* ------------------------------------------------------------ the graphs
Uninformed == {"bfs", "dfs", "dls", "ids", "ucs", "bidirectional"}
Informed == {"greedy", "astar"}

\* Node.add_neighbor for every edge of es, in ascending order of the neighbor
MkNeighbors(es, w) ==
    [n \in Nodes |->
        LET s == SetToSeq({m \in Nodes : <<n, m>> \in es})
        IN [i \in 1..Len(s) |-> [node |-> s[i], weight |-> w[<<n, s[i]>>]]]]

\* directed edges among the first k nodes, no self loop (main.py add_edge)
Pairs(k) == {<<u, v>> \in (1..k) \X (1..k) : u # v}

\* edges that run from left to right only
ForwardPairs(k) == {<<u, v>> \in (1..k) \X (1..k) : u < v}

EdgeSets(pairs, maxEdges) == {es \in SUBSET pairs : Cardinality(es) <= maxEdges}

ZeroHeuristic == [n \in Nodes |-> 0]

\* SearchAgent(graph, source, goal, goal_nodes) over the nodes gr placed at ps,
\* a new engine not yet run
\* self.undo_stack = [], self.redo_stack = []; before, after and last are
\* history: the graph before and after the last edit that saved a state, and
\* whether the last operations were that edit ("edit") and then one undo
\* ("undo")
NewUndo == [stack |-> <<>>, redo |-> <<>>, before |-> <<>>, after |-> <<>>, last |-> "none"]

InitBase(ed, ps, gr, es, w, h, s, g, gs, m, t, k, l) ==
    /\ editor = ed
    /\ cursor = -1
    /\ edits = 0
    /\ undo = NewUndo
    /\ neighbors = MkNeighbors(es, w)
    /\ pos = ps
    /\ heuristic = h
    /\ graph = SetToSeq(gr)
    /\ source = s
    /\ goal = g
    /\ goal_nodes = gs
    /\ state = [n \in Nodes |-> IF n = s THEN "source"
                                ELSE IF n \in Range(gs) \/ n = g THEN "goal" ELSE "empty"]
    /\ parent = [n \in Nodes |-> None]
    /\ cost = [n \in Nodes |-> 0]
    /\ agent = NewAgent
    /\ gen = NewGen("none")
    /\ menu = m
    /\ dirty = FALSE
    /\ track = t
    /\ hist = [a \in Algorithms |-> NoRun]
    /\ keep = k
    /\ logging = l
    /\ log = <<>>
    /\ first = <<>>
    /\ runs = 0

\* the engine is driven directly
InitPlaced(ps, gr, es, w, h, s, g, gs, m, t, k, l) ==
    InitBase(FALSE, ps, gr, es, w, h, s, g, gs, m, t, k, l)

\* node n at x = n
InitGraph(gr, es, w, h, s, g, gs, m, t, k, l) ==
    InitPlaced([n \in Nodes |-> <<n, 0>>], gr, es, w, h, s, g, gs, m, t, k, l)

\* the graph as the editor leaves it: every node is in the graph
InitEngine(es, w, h, s, g, gs, m, t, k, l) ==
    InitGraph(Nodes, es, w, h, s, g, gs, m, t, k, l)

\* start_search: a new SearchAgent per run, nothing recorded
InitWith(es, w, h, s, g, gs, m, t) == InitEngine(es, w, h, s, g, gs, m, t, FALSE, FALSE)

\* every weighted graph on the first SmallNodes nodes, one goal
InitSmall ==
    \E es \in EdgeSets(Pairs(SmallNodes), MaxEdges) :
    \E w \in [es -> 1..MaxWeight] :
    \E s \in 1..SmallNodes : \E g \in (1..SmallNodes) \ {s} :
        \/ \E gl \in {g, None} :
              InitWith(es, w, ZeroHeuristic, s, gl, <<g>>, Uninformed, {})
        \/ \E h \in [1..SmallNodes -> 0..MaxHeur] :
              /\ \E n \in 1..SmallNodes : h[n] > 0
              /\ InitWith(es, w, [n \in Nodes |-> IF n <= SmallNodes THEN h[n] ELSE 0],
                          s, g, <<g>>, Informed, {})

Init == InitSmall

StartSearch ==
    \/ BfsStart
    \/ DfsStart
    \/ \E d \in 0..MaxDepth : DlsStart(d)
    \/ \E d \in 0..MaxDepth : IdsStart(d)
    \/ UcsStart
    \/ GreedyStart
    \/ AStarStart
    \/ BiStart

Next ==
    \/ StartSearch
    \/ BfsPop \/ BfsProcess \/ BfsExhaust
    \/ DfsPop \/ DfsProcess \/ DfsExhaust
    \/ DlsPop \/ DlsProcess \/ DlsExhaust
    \/ IdsPop \/ IdsProcess \/ IdsNextLimit \/ IdsExhaust
    \/ UcsPop \/ UcsProcess \/ UcsExhaust
    \/ GreedyPop \/ GreedyProcess \/ GreedyExhaust
    \/ AStarPop \/ AStarProcess \/ AStarExhaust
    \/ BiForwardPop \/ BiForwardProcess \/ BiBackwardPop \/ BiBackwardProcess \/ BiExhaust
    \/ Return

Spec == Init /\ [][Next]_vars

\* ---------------------------------------------------------------- claims
\* the graph as mathematics, for the statements below
Succ(n) == Range(get_neighbors(n))

RECURSIVE Closure(_)
Closure(S) ==
    LET T == S \cup UNION {Succ(n) : n \in S}
    IN IF T = S THEN S ELSE Closure(T)

Reachable(s, t) == t \in Closure({s})

\* the least number of edges of a directed path from the set S to a node of T
RECURSIVE Layers(_, _, _, _)
Layers(S, seen, T, d) ==
    IF S \cap T # {} THEN d
    ELSE LET nxt == UNION {Succ(n) : n \in S} \ seen
         IN IF nxt = {} THEN Inf ELSE Layers(nxt, seen \cup nxt, T, d + 1)

MinEdges(s, T) == Layers({s}, {s}, T, 0)

\* the least total weight of a directed path from s to t (Bellman-Ford over
\* the set D of pairs <<node, distance>>)
DistOf(D, n) == (CHOOSE p \in D : p[1] = n)[2]

RECURSIVE Relax(_, _)
Relax(D, k) ==
    IF k = 0 THEN D
    ELSE Relax({<<n, LET via == {Plus(DistOf(D, m), get_weight(m, n)) :
                                    m \in {m \in Nodes : HasEdge(m, n)}} \cup {DistOf(D, n)}
                     IN CHOOSE c \in via : \A o \in via : c <= o>> : n \in Nodes}, k - 1)

MinCost(s, t) == DistOf(Relax({<<n, IF n = s THEN 0 ELSE Inf>> : n \in Nodes}, NumNodes), t)

\* the total weight of the consecutive pairs of a path
PathWeight(path) ==
    LET RECURSIVE W(_)
        W(i) == IF i >= Len(path) THEN 0 ELSE Plus(get_weight(path[i], path[i + 1]), W(i + 1))
    IN W(1)

Ended == gen.pc \in {"final", "done"}
Clean == \A n \in Nodes :
            /\ state[n] \in {"source", "goal", "empty"}
            /\ parent[n] = None
            /\ cost[n] = 0

\* C1: at the first observation point of a run (after reset_state, the source
\* seeded in the frontier only), and after the reset of a run on an engine
\* without goal, every node that is not source or goal is empty and every
\* node has no parent and cost 0, whatever the previous run left behind.
C1_ResetRestoresNodes ==
    (gen.pc = "seeded" /\ agent.visited_list = <<>>) \/ (gen.pc = "done" /\ goal = None)
        => Clean

\* a second run has started on nodes the previous run left marked
C1_Witness == gen.pc = "seeded" /\ agent.visited_list = <<>> /\ dirty

\* C2: whenever a run of any algorithm has ended with success, path_cost is
\* the sum of the edge weights of the consecutive pairs of path_found.
C2_CostIsPathWeight ==
    Ended /\ agent.success => agent.path_cost = PathWeight(agent.path_found)

\* a successful run whose path has an edge of weight other than 1
C2_Witness ==
    /\ Ended /\ agent.success /\ Len(agent.path_found) >= 3
    /\ agent.path_cost > Len(agent.path_found) - 1
    /\ gen.alg = "bidirectional"

\* C3: whenever a run has ended with success the path starts at the source,
\* ends at a designated goal and follows the edges in their direction.
C3_PathFollowsEdges ==
    Ended /\ agent.success =>
        LET path == agent.path_found
        IN /\ Len(path) >= 1
           /\ path[1] = source
           /\ is_goal(path[Len(path)])
           /\ \A i \in 1..(Len(path) - 1) : HasEdge(path[i], path[i + 1])

\* a bidirectional run met in the middle on a graph where the path's edges
\* have no reverse edge
C3_Witness ==
    /\ Ended /\ agent.success /\ gen.alg = "bidirectional"
    /\ Len(agent.path_found) >= 3
    /\ \A i \in 1..(Len(agent.path_found) - 1) :
          ~HasEdge(agent.path_found[i + 1], agent.path_found[i])

Complete == {"bfs", "dfs", "ucs", "greedy", "astar", "bidirectional"}

\* an engine with exactly one goal: SearchAgent(graph, source, goal), or
\* start_search with one goal node (goal = goal_nodes[0])
SingleGoal == goal # None /\ goal_nodes = <<goal>>

Admissible == \A n \in Nodes : Reachable(n, goal) => heuristic[n] <= MinCost(n, goal)

\* h(u) <= w(u, v) + h(v) on every edge
Consistent == \A u \in Nodes : \A v \in Succ(u) : heuristic[u] <= get_weight(u, v) + heuristic[v]

\* the heuristics that are 0 at the goal and off ns, and consistent on the edges
\* es weighted by w: exactly the admissible, consistent ones
ConsistentHeuristics(es, w, g, ns) ==
    {h \in [Nodes -> 0..MaxHeur] :
        /\ h[g] = 0
        /\ \A n \in Nodes \ ns : h[n] = 0
        /\ \A e \in es : h[e[1]] <= w[e] + h[e[2]]}

\* small unweighted graphs, cycles included
InitSmallUnit(m) ==
    \E es \in EdgeSets(Pairs(SmallNodes), MaxEdges) :
    \E s \in 1..SmallNodes : \E g \in (1..SmallNodes) \ {s} :
        InitWith(es, [e \in es |-> 1], ZeroHeuristic, s, g, <<g>>, m, m)

\* sparse unweighted graphs on MidNodes nodes, cycles included
InitMidUnit(m) ==
    \E es \in EdgeSets(Pairs(MidNodes), MidEdges) :
    \E s \in 1..MidNodes : \E g \in (1..MidNodes) \ {s} :
        InitWith(es, [e \in es |-> 1], ZeroHeuristic, s, g, <<g>>, m, m)

\* unweighted graphs whose edges run left to right, the source leftmost
InitDagUnit(m) ==
    \E es \in EdgeSets(ForwardPairs(NumNodes), MaxDagEdges) :
    \E g \in Nodes \ {1} :
        InitWith(es, [e \in es |-> 1], ZeroHeuristic, 1, g, <<g>>, m, m)

\* small graphs with weights 0..MaxWeight and an admissible, consistent heuristic
InitSmallHeur(m) ==
    \E es \in EdgeSets(Pairs(SmallNodes), MaxEdges) :
    \E w \in [es -> 0..MaxWeight] :
    \E s \in 1..SmallNodes : \E g \in (1..SmallNodes) \ {s} :
    \E h \in ConsistentHeuristics(es, w, g, 1..SmallNodes) :
        InitWith(es, w, h, s, g, <<g>>, m, m)

\* the nodes that the edges es reach from the nodes S
RECURSIVE ReachVia(_, _, _)
ReachVia(es, S, fuel) ==
    IF fuel = 0 THEN S
    ELSE ReachVia(es, S \cup {e[2] : e \in {d \in es : d[1] \in S}}, fuel - 1)

\* left-to-right graphs with unit weights, the goal reachable from the source,
\* and an admissible, consistent heuristic
InitDagHeur(m) ==
    \E es \in EdgeSets(ForwardPairs(NumNodes), MaxDagEdges - 1) :
    \E g \in ReachVia(es, {1}, NumNodes) \ {1} :
    \E h \in ConsistentHeuristics(es, [e \in es |-> 1], g, Nodes) :
        InitWith(es, [e \in es |-> 1], h, 1, g, <<g>>, m, m)

\* UCS and A* on the same graph, each run once, in either order
InitCost == InitSmallHeur({"ucs", "astar"}) \/ InitDagHeur({"ucs", "astar"})

NextCost ==
    \/ UcsStart \/ UcsPop \/ UcsProcess \/ UcsExhaust
    \/ AStarStart \/ AStarPop \/ AStarProcess \/ AStarExhaust
    \/ Return

SpecCost == InitCost /\ [][NextCost]_vars

\* BFS and IDS (maximum depth = number of nodes) on the same unweighted graph
InitIds == InitSmallUnit({"bfs", "ids"}) \/ InitDagUnit({"bfs", "ids"})

NextIds ==
    \/ BfsStart \/ BfsPop \/ BfsProcess \/ BfsExhaust
    \/ IdsStart(NumNodes) \/ IdsPop \/ IdsProcess \/ IdsNextLimit \/ IdsExhaust
    \/ Return

SpecIds == InitIds /\ [][NextIds]_vars

\* BFS and bidirectional search on the same unweighted graph
InitBi == InitMidUnit({"bfs", "bidirectional"}) \/ InitDagUnit({"bfs", "bidirectional"})

NextBi ==
    \/ BfsStart \/ BfsPop \/ BfsProcess \/ BfsExhaust
    \/ BiStart \/ BiForwardPop \/ BiForwardProcess \/ BiBackwardPop \/ BiBackwardProcess
    \/ BiExhaust
    \/ Return

SpecBi == InitBi /\ [][NextBi]_vars

\* ------------------------------------------------- claims on optimality
Edges(path) == Len(path) - 1

\* C4: with non-negative weights and the goal reachable, uniform-cost search
\* ends with success and its path_cost is the least total weight of a directed
\* path from the source to the goal.
C4_UcsOptimal ==
    Ended /\ gen.alg = "ucs" /\ SingleGoal /\ Reachable(source, goal) =>
        agent.success /\ agent.path_cost = MinCost(source, goal)

\* UCS took a path with more edges than the shortest one because it is cheaper
C4_Witness ==
    /\ Ended /\ gen.alg = "ucs" /\ agent.success
    /\ Edges(agent.path_found) > MinEdges(source, {goal})
    /\ agent.path_cost = MinCost(source, goal)

BothRan(a, b) == hist[a].ran /\ hist[b].ran

\* C5: with non-negative weights and an admissible, consistent heuristic, UCS
\* and A* on the same graph, source and goal both fail, or both succeed with
\* the same path cost.
C5_UcsAStarSameCost ==
    BothRan("ucs", "astar") /\ Admissible /\ Consistent =>
        /\ hist["ucs"].success = hist["astar"].success
        /\ hist["ucs"].path_cost = hist["astar"].path_cost

\* both succeeded on a graph with a positive heuristic value and a path of
\* several edges
C5_Witness ==
    /\ BothRan("ucs", "astar") /\ Admissible /\ Consistent
    /\ hist["astar"].success /\ Len(hist["astar"].path_found) >= 3
    /\ \E n \in Nodes : heuristic[n] > 0

\* C6 (as stated): with an admissible, consistent heuristic, A* explores at
\* most as many nodes as UCS on the same graph, source and goal.
C6_AStarExploresNoMore ==
    BothRan("ucs", "astar") /\ Admissible /\ Consistent =>
        hist["astar"].nodes_explored <= hist["ucs"].nodes_explored

\* the nodes A* explored, the goal apart, whose f = g + h equals the cost of
\* the path found
TiedWithGoal ==
    {n \in Range(hist["astar"].visited_list) \ {goal} :
        Plus(MinCost(source, n), heuristic[n]) = hist["astar"].path_cost}

\* C6 (amended): with non-negative weights and an admissible, consistent
\* heuristic, when both runs fail A* and UCS explore the same number of nodes,
\* and when they succeed A* explores at most as many nodes as UCS plus the
\* non-goal nodes it explored whose f equals the cost of the path found.
C6_AStarExploresNoMoreUpToTies ==
    BothRan("ucs", "astar") /\ Admissible /\ Consistent =>
        IF hist["astar"].success
        THEN hist["astar"].nodes_explored
                 <= hist["ucs"].nodes_explored + Cardinality(TiedWithGoal)
        ELSE hist["astar"].nodes_explored = hist["ucs"].nodes_explored

\* A* explored more nodes than UCS, one of them a node tied with the goal on f
\* that UCS never explored
C6_Witness ==
    /\ BothRan("ucs", "astar") /\ Admissible /\ Consistent
    /\ hist["astar"].success
    /\ hist["astar"].nodes_explored > hist["ucs"].nodes_explored
    /\ \E n \in TiedWithGoal : n \notin Range(hist["ucs"].visited_list)

\* C7 (as stated): on an unweighted graph with the goal reachable, IDS with a
\* maximum depth of at least the number of nodes returns a path with as many
\* edges as the path BFS returns.
C7_IdsAsShortAsBfs ==
    BothRan("bfs", "ids") /\ SingleGoal /\ Reachable(source, goal) =>
        /\ hist["ids"].success /\ hist["bfs"].success
        /\ Edges(hist["ids"].path_found) = Edges(hist["bfs"].path_found)

\* C8: when a goal is reachable, BFS ends with success and its path has the
\* least number of edges of all directed paths from the source to a goal.
C8_BfsFewestEdges ==
    Ended /\ gen.alg = "bfs" /\ goal # None /\ Closure({source}) \cap Range(goal_nodes) # {} =>
        /\ agent.success
        /\ Edges(agent.path_found) = MinEdges(source, Range(goal_nodes))

\* BFS succeeded on a graph that also has a longer path to the goal, found
\* first by a depth-first order
C8_Witness ==
    /\ Ended /\ gen.alg = "bfs" /\ agent.success
    /\ Edges(agent.path_found) = 2
    /\ \E n \in Succ(source) : n # agent.path_found[2] /\ n < agent.path_found[2]
                               /\ Reachable(n, goal)

\* C9 (as stated): on an unweighted directed graph with one goal reachable from
\* the source, bidirectional search returns a path with the least number of
\* edges.
C9_BidirectionalFewestEdges ==
    Ended /\ gen.alg = "bidirectional" /\ SingleGoal /\ Reachable(source, goal) =>
        /\ agent.success
        /\ Edges(agent.path_found) = MinEdges(source, {goal})

\* ------------------------------------------- claims on limits and failure
\* depth-limited search alone, every limit 0..MaxDepth, on sparse unweighted graphs
InitDls == InitMidUnit({"dls"})

NextDls ==
    \/ \E d \in 0..MaxDepth : DlsStart(d)
    \/ DlsPop \/ DlsProcess \/ DlsExhaust
    \/ Return

SpecDls == InitDls /\ [][NextDls]_vars

\* C11 (as stated): depth-limited search with limit L ends with success
\* whenever a goal is reachable from the source by a directed path of at most
\* L edges.
C11_DlsFindsGoalWithinLimit ==
    Ended /\ gen.alg = "dls" /\ goal # None
          /\ MinEdges(source, Range(goal_nodes)) <= gen.param =>
        agent.success

\* two runs of one algorithm, with the same parameter, on the same graph: on
\* the same SearchAgent or on a new one, the observation points recorded
\* SearchAgent(graph, source, goal, goal_nodes): goal and goal_nodes as
\* __init__ leaves them: the goal given, only goal_nodes given, neither given
GoalChoices(g) == {<<g, <<g>>>>, <<None, <<g>>>>, <<None, <<>>>>}

InitRerun ==
    \E es \in EdgeSets(Pairs(SmallNodes), MaxEdges) :
    \E w \in [es -> 1..MaxWeight] :
    \E s \in 1..SmallNodes : \E g \in (1..SmallNodes) \ {s} :
    \E k \in BOOLEAN :
    \E c \in GoalChoices(g) :
        \/ InitEngine(es, w, ZeroHeuristic, s, c[1], c[2], Uninformed, {}, k, TRUE)
        \/ \E h \in [1..SmallNodes -> 0..MaxHeur] :
              /\ \E n \in 1..SmallNodes : h[n] > 0
              /\ InitEngine(es, w, [n \in Nodes |-> IF n <= SmallNodes THEN h[n] ELSE 0],
                            s, c[1], c[2], Informed, {}, k, TRUE)

SpecRerun == InitRerun /\ [][Next]_vars

\* an observation point without current_node_info
Shown(o) == [f \in DOMAIN o \ {"current_node_info"} |-> o[f]]

SameShown(a, b) ==
    /\ Len(a) = Len(b)
    /\ \A i \in 1..Len(a) : Shown(a[i]) = Shown(b[i])

TwoRunsDone == logging /\ runs = 2 /\ gen.pc = "done"

\* the two runs agree on everything shown but current_node_info: the visited
\* order, fringe snapshots, node states, path, cost and outcome at every yield
SameShownRuns == TwoRunsDone => SameShown(first, log)

\* C12 (as stated): two runs of an algorithm on the same graph, on one engine
\* or on two, give the identical sequence of observation points.
C12_RunsAreIdentical == TwoRunsDone => first = log

\* greedy has popped a node that is no goal, the frontier is empty and every
\* neighbor of the node is visited already
GreedyAtDeadEnd ==
    /\ gen.alg = "greedy" /\ gen.pc = "popped"
    /\ ~is_goal(gen.current)
    /\ gen.frontier = <<>>
    /\ Succ(gen.current) \subseteq gen.visited \cup {gen.current}

\* C13: in greedy best-first search, when the expansion of the current node
\* (no goal) admits no neighbor and the frontier is empty, the run ends with
\* success = false and the dead-end reason, not the reason of exhaustion.
C13_DeadEndIsReported ==
    [][GreedyAtDeadEnd =>
          /\ gen'.pc = "final"
          /\ agent'.success = FALSE
          /\ agent'.failure_reason = "Greedy search got stuck in a dead-end"
          /\ agent'.path_found = <<>>]_vars

\* a greedy run that ended at a dead end after more than one node
C13_Witness ==
    /\ Ended /\ gen.alg = "greedy" /\ ~agent.success
    /\ agent.failure_reason = "Greedy search got stuck in a dead-end"
    /\ Len(agent.visited_list) >= 2
    /\ gen.frontier = <<>>

\* C14 (as stated): a run of any algorithm on a graph whose goal is not
\* reachable from the source ends with success = false, an empty path and a
\* failure reason that is set: exhaustion, or the dead end of greedy.
C14_FailureIsTyped ==
    Ended /\ SingleGoal /\ ~Reachable(source, goal) =>
        /\ agent.success = FALSE
        /\ agent.path_found = <<>>
        /\ agent.failure_reason \in {Exhausted, StuckDeadEnd}

\* what holds of such a run: no success, no path, and a reason only in greedy
FailureOutcome ==
    Ended /\ SingleGoal /\ ~Reachable(source, goal) =>
        /\ agent.success = FALSE
        /\ agent.path_found = <<>>
        /\ agent.failure_reason = IF gen.alg = "greedy" THEN StuckDeadEnd ELSE "None"

\* a run has returned on an engine that was given no goal at all
NoGoalRunDone ==
    /\ logging /\ gen.pc = "done" /\ gen.alg \in Algorithms
    /\ goal = None /\ goal_nodes = <<>>

\* C15 (as stated): a run of any algorithm on an engine with no goal emits no
\* observation point, visits no node, and reports a failure reason for the
\* missing goal, with success = false and an empty path.
C15_NoGoalIsReported ==
    NoGoalRunDone =>
        /\ log = <<>>
        /\ agent.visited_list = <<>> /\ agent.nodes_explored = 0
        /\ agent.success = FALSE /\ agent.path_found = <<>>
        /\ agent.failure_reason # "None"

\* what holds of such a run: nothing observed, nothing visited, no reason set
NoGoalOutcome ==
    NoGoalRunDone =>
        /\ log = <<>>
        /\ agent.visited_list = <<>> /\ agent.nodes_explored = 0
        /\ agent.success = FALSE /\ agent.path_found = <<>>
        /\ agent.failure_reason = "None"
        /\ \A n \in Nodes : state[n] \in {"source", "empty"}

\* C16 (as stated): an engine built with goal nodes searches for them also
\* when its single goal is None: a run performs steps, and succeeds when a node
\* of goal_nodes is reachable (BFS, DFS, UCS, greedy and A*, which always find
\* a reachable goal).
C16_GoalNodesAreSearched ==
    /\ gen.pc = "done" /\ gen.alg \in {"bfs", "dfs", "ucs", "greedy", "astar"}
    /\ goal_nodes # <<>>
    /\ \E g \in Range(goal_nodes) : Reachable(source, g)
    => agent.nodes_explored > 0 /\ agent.success

\* what holds instead: with goal = None nothing is searched, whatever goal_nodes is
NoGoalNoSearch ==
    gen.pc = "done" /\ gen.alg \in Algorithms /\ goal = None =>
        agent.nodes_explored = 0 /\ agent.success = FALSE /\ ~Marked

\* the iteration of IDS under way has emptied its frontier
IterationOver == SkipVisitedTuples(gen.frontier, gen.visited) = <<>>

IdsRunning == gen.alg = "ids" /\ gen.pc \notin {"idle", "done"}

\* C17: iterative deepening with maximum depth M starts at limit 0, moves from
\* a limit to the next one only (and only when the iteration has emptied its
\* frontier and M is not reached), ends with success in the very step that
\* processes a popped goal, at the limit of that iteration, and ends with
\* failure only when the iteration with limit M has emptied its frontier.
C17_IdsLimitsInOrder ==
    [][/\ (gen.pc \in {"idle", "done"} /\ gen'.alg = "ids" /\ gen'.pc = "seeded")
            => gen'.limit = 0
       /\ IdsRunning =>
            /\ gen'.param = gen.param
            /\ \/ gen'.limit = gen.limit
               \/ /\ gen'.limit = gen.limit + 1 /\ gen.limit < gen.param
                  /\ gen.pc \in {"seeded", "expanded"} /\ IterationOver
                  /\ gen'.pc = "seeded" /\ gen'.visited = {}
                  /\ gen'.frontier = <<<<source, 0>>>>
            /\ (gen.pc = "popped" /\ is_goal(gen.current))
                 => gen'.pc = "final" /\ agent'.success /\ gen'.limit = gen.limit
            /\ (gen.pc # "final" /\ gen'.pc = "final" /\ ~agent'.success)
                 => gen.limit = gen.param /\ IterationOver
            /\ (gen.pc # "final" /\ gen'.pc = "final" /\ agent'.success)
                 => gen.pc = "popped" /\ is_goal(gen.current)
      ]_vars

\* an IDS run with M = MaxDepth failed after it went through every limit
C17_Witness ==
    /\ Ended /\ gen.alg = "ids" /\ ~agent.success
    /\ gen.param = MaxDepth /\ gen.limit = MaxDepth
    /\ Len(agent.visited_list) > MaxDepth + 1

\* an IDS run succeeded at a limit between 0 and M
IdsSucceedsBelowMax ==
    Ended /\ gen.alg = "ids" /\ agent.success /\ 0 < gen.limit /\ gen.limit < gen.param

\* ------------------------------------------------------- malformed input
\* the weights add_neighbor is given: a negative one and a proper one
MalformedWeights == {-1, 1}

\* engines built from a graph with a negative edge weight, or from a graph
\* dictionary that lacks a node some neighbor entry refers to
InitMalformed ==
    \E es \in EdgeSets(Pairs(SmallNodes), MaxEdges) :
    \E s \in 1..SmallNodes : \E g \in (1..SmallNodes) \ {s} :
        \/ \E w \in [es -> MalformedWeights] :
              /\ \E e \in es : w[e] < 0
              /\ InitGraph(Nodes, es, w, ZeroHeuristic, s, g, <<g>>, {"bfs", "ucs"}, {},
                           FALSE, FALSE)
        \/ \E d \in (1..SmallNodes) \ {s, g} :
              /\ \E e \in es : e[2] = d /\ e[1] # d
              /\ InitGraph(Nodes \ {d}, es, [e \in es |-> 1], ZeroHeuristic, s, g, <<g>>,
                           {"bfs", "ucs"}, {}, FALSE, FALSE)

NextMalformed ==
    \/ BfsStart \/ BfsPop \/ BfsProcess \/ BfsExhaust
    \/ UcsStart \/ UcsPop \/ UcsProcess \/ UcsExhaust
    \/ Return

SpecMalformed == InitMalformed /\ [][NextMalformed]_vars

NegativeEdge ==
    \E n \in Nodes : \E i \in 1..Len(neighbors[n]) : neighbors[n][i].weight < 0

DanglingNeighbor ==
    \E n \in Range(graph) : \E i \in 1..Len(neighbors[n]) :
        neighbors[n][i].node \notin Range(graph)

\* C18 (as stated): an engine built from a graph with a negative edge weight
\* or with a neighbor that is not in the graph never runs: no run of it
\* executes a step.
C18_MalformedNeverRuns ==
    NegativeEdge \/ DanglingNeighbor =>
        gen.pc \in {"idle", "done"} /\ agent.nodes_explored = 0 /\ ~Marked

\* what happens instead: a run over a negative edge ends with a negative cost
NegativeCostReported == Ended /\ NegativeEdge /\ agent.success /\ agent.path_cost < 0

\* what happens instead: a run explores the node that is not in the graph
DanglingNodeExplored ==
    \E n \in Nodes \ Range(graph) : n \in Range(agent.visited_list) /\ state[n] = "visited"

\* ------------------------------------------------- the simple path example
\* load_simple_example: nodes 0..4 in a row (here 1..NumNodes), an edge of
\* weight 1 from each node to the next
ChainEdges == {<<n, n + 1>> : n \in 1..(NumNodes - 1)}

BackEdges(es) == {<<e[2], e[1]>> : e \in es}

\* the chain with its edges one way or both ways, and the chains that lost
\* some edges; source the first node, goal the last, every heuristic 0
InitChain ==
    \E es \in (SUBSET ChainEdges) \cup {ChainEdges \cup BackEdges(ChainEdges)} :
    \E k \in BOOLEAN :
        InitEngine(es, [e \in es |-> 1], ZeroHeuristic, 1, NumNodes, <<NumNodes>>,
                   {"bfs", "dfs", "ucs", "astar"}, {}, k, FALSE)

NextChain ==
    \/ BfsStart \/ BfsPop \/ BfsProcess \/ BfsExhaust
    \/ DfsStart \/ DfsPop \/ DfsProcess \/ DfsExhaust
    \/ UcsStart \/ UcsPop \/ UcsProcess \/ UcsExhaust
    \/ AStarStart \/ AStarPop \/ AStarProcess \/ AStarExhaust
    \/ Return

SpecChain == InitChain /\ [][NextChain]_vars

\* the graph is the whole chain: unit edges between neighbours in the row,
\* every edge to the next node is there
IsChain ==
    /\ \A n \in 1..(NumNodes - 1) : HasEdge(n, n + 1)
    /\ \A n, m \in Nodes : HasEdge(n, m) => get_weight(n, m) = 1 /\ (m = n + 1 \/ n = m + 1)
    /\ source = 1 /\ goal = NumNodes /\ goal_nodes = <<NumNodes>>
    /\ \A n \in Nodes : heuristic[n] = 0

\* C19: on the 5-node chain with unit weights, source the first node and goal
\* the last, a run of BFS, DFS, UCS or A* (heuristics 0) ends with success,
\* the path through all five nodes in order, path_cost 4 and nodes_explored 5.
C19_ChainOutcome ==
    Ended /\ IsChain /\ gen.alg \in {"bfs", "dfs", "ucs", "astar"} =>
        /\ agent.success
        /\ agent.path_found = [i \in 1..NumNodes |-> i]
        /\ agent.path_cost = NumNodes - 1
        /\ agent.nodes_explored = NumNodes

\* a run of A* on the chain has ended
C19_Witness == Ended /\ IsChain /\ gen.alg = "astar" /\ agent.nodes_explored = NumNodes

ChainRunEnded(alg) == Ended /\ IsChain /\ gen.alg = alg /\ agent.success

ChainBfsEnded == ChainRunEnded("bfs")
ChainDfsEnded == ChainRunEnded("dfs")
ChainUcsEnded == ChainRunEnded("ucs")

\* ------------------------------------------------------ the diamond graph
DiamondHeur == 4
GoalHeur == 1
GridSize == 1

\* the edges 0->1 (2), 0->2 (5), 1->3 (2), 2->3 (1); nodes 1..4 stand for 0..3
DiamondWeights ==
    (<<1, 2>> :> 2) @@ (<<1, 3>> :> 5) @@ (<<2, 4>> :> 2) @@ (<<3, 4>> :> 1)

DiamondEdges == DOMAIN DiamondWeights

DiamondGraph == {e[1] : e \in DiamondEdges} \cup {e[2] : e \in DiamondEdges}

\* goal 3: the node of the diamond without an edge out
DiamondGoal == CHOOSE n \in DiamondGraph : \A e \in DiamondEdges : e[1] # n

\* every placement of the diamond's nodes on the grid, two nodes on the same
\* spot included
Placements ==
    {p \in [Nodes -> (0..GridSize) \X (0..GridSize)] :
        \A n \in Nodes \ DiamondGraph : p[n] = <<0, 0>>}

\* the heuristics that are consistent on the diamond's edges, 0 at the goal
\* or not
DiamondHeuristics ==
    {h \in [Nodes -> 0..DiamondHeur] :
        /\ h[DiamondGoal] <= GoalHeur
        /\ \A n \in Nodes \ DiamondGraph : h[n] = 0
        /\ \A e \in DiamondEdges : h[e[1]] <= DiamondWeights[e] + h[e[2]]}

\* the diamond under every placement and consistent heuristic, and, at one
\* placement, the diamonds that lost some edges
InitDiamond ==
    \/ \E p \in Placements : \E h \in DiamondHeuristics :
          InitPlaced(p, DiamondGraph, DiamondEdges, DiamondWeights, h,
                     1, DiamondGoal, <<DiamondGoal>>, {"ucs", "astar"}, {}, FALSE, FALSE)
    \/ \E es \in SUBSET DiamondEdges :
          InitGraph(DiamondGraph, es, [e \in es |-> DiamondWeights[e]], ZeroHeuristic,
                    1, DiamondGoal, <<DiamondGoal>>, {"ucs", "astar"}, {}, FALSE, FALSE)

SpecDiamond == InitDiamond /\ [][NextCost]_vars

IsDiamond ==
    /\ neighbors = MkNeighbors(DiamondEdges, DiamondWeights)
    /\ graph = SetToSeq(DiamondGraph)
    /\ source = 1 /\ goal = DiamondGoal /\ goal_nodes = <<DiamondGoal>>

\* C20: on the diamond graph, wherever its nodes are placed, a run of UCS and
\* a run of A* with a consistent heuristic end with the path 0, 1, 3 (here
\* 1, 2, 4) and path_cost 4.
C20_DiamondOutcome ==
    Ended /\ IsDiamond /\ Consistent /\ gen.alg \in {"ucs", "astar"} =>
        /\ agent.success
        /\ agent.path_found = <<1, 2, DiamondGoal>>
        /\ agent.path_cost = 4

\* a run of A* has ended on a diamond whose heuristic prefers the dearer
\* branch and whose placement lists that branch first
C20_Witness ==
    /\ Ended /\ IsDiamond /\ Consistent /\ gen.alg = "astar" /\ agent.success
    /\ heuristic[3] < heuristic[2]
    /\ KeyLess(3, 2)

DiamondUcsEnded ==
    Ended /\ IsDiamond /\ gen.alg = "ucs" /\ agent.success /\ KeyLess(3, 2)

\* ---------------------------------------------------------- several goals
\* start_search with two goal nodes: goal = self.goal_nodes[0]
InitMulti ==
    \E es \in EdgeSets(Pairs(SmallNodes), MaxEdges) :
    \E s \in 1..SmallNodes : \E g1 \in (1..SmallNodes) \ {s} :
    \E g2 \in (1..SmallNodes) \ {s, g1} :
        InitWith(es, [e \in es |-> 1], ZeroHeuristic, s, g1, <<g1, g2>>,
                 {"bfs", "bidirectional"}, {})

SpecMulti == InitMulti /\ [][NextBi]_vars

SomeGoalReachable == \E g \in Range(goal_nodes) : Reachable(source, g)

\* C21 (as stated): a bidirectional run on an engine with several goals ends
\* with success whenever one of the goals is reachable from the source.
C21_BidirectionalAnyGoal ==
    Ended /\ gen.alg = "bidirectional" /\ Len(goal_nodes) > 1 /\ SomeGoalReachable
        => agent.success

\* what holds instead: the backward search starts from the first goal alone,
\* and the run succeeds exactly when that goal is reachable
BidirectionalFirstGoalOnly ==
    Ended /\ gen.alg = "bidirectional" /\ goal # None =>
        /\ gen.backward_visited[goal] = None
        /\ \A g \in Range(goal_nodes) \ {goal} :
              gen.backward_visited[g] # Absent => gen.backward_visited[g] # None
        /\ agent.success <=> Reachable(source, goal)

\* ------------------------------------------------------------ termination
\* directed edges among the first k nodes, loops from a node to itself included
LoopPairs(k) == (1..k) \X (1..k)

\* unweighted graphs with cycles and self loops, every algorithm on the menu
InitLoops ==
    \E es \in EdgeSets(LoopPairs(SmallNodes), MaxEdges) :
    \E s \in 1..SmallNodes : \E g \in (1..SmallNodes) \ {s} :
        InitWith(es, [e \in es |-> 1], ZeroHeuristic, s, g, <<g>>, Algorithms, {})

SpecLoops == InitLoops /\ [][Next]_vars

Running == gen.pc \notin {"idle", "done"}

\* the position in the loop body: lower the closer to the end of the run
Rank ==
    CASE gen.pc \in {"idle", "done"} -> 0
      [] gen.pc = "final" -> 1
      [] gen.pc \in {"popped", "fexpanded", "bexpanded"} -> 2
      [] gen.pc = "seeded" -> IF gen.alg = "bidirectional" THEN 2 ELSE 3
      [] gen.pc \in {"expanded", "fpopped", "bpopped"} -> 3

\* what one iteration of IDS can use up at most
PerIteration == 3 * NumNodes + 4

\* a number that bounds the advances a run has left: the nodes not yet
\* processed (for bidirectional search, not yet discovered or still queued, on
\* either side) and, for IDS, the limits not yet tried
Measure ==
    IF gen.alg = "bidirectional"
    THEN 4 * (2 * Cardinality({n \in Nodes : gen.forward_visited[n] = Absent})
              + Len(gen.frontier)
              + 2 * Cardinality({n \in Nodes : gen.backward_visited[n] = Absent})
              + Len(gen.backward)) + Rank
    ELSE (gen.param - gen.limit) * PerIteration
         + 3 * Cardinality(Nodes \ gen.visited) + Rank

NeverStuck ==
    Running =>
        \/ gen.alg = "bidirectional" /\ gen.pc = "bpopped"
        \/ ENABLED (\/ BfsPop \/ BfsProcess \/ BfsExhaust
                    \/ DfsPop \/ DfsProcess \/ DfsExhaust
                    \/ DlsPop \/ DlsProcess \/ DlsExhaust
                    \/ IdsPop \/ IdsProcess \/ IdsNextLimit \/ IdsExhaust
                    \/ UcsPop \/ UcsProcess \/ UcsExhaust
                    \/ GreedyPop \/ GreedyProcess \/ GreedyExhaust
                    \/ AStarPop \/ AStarProcess \/ AStarExhaust
                    \/ BiForwardPop \/ BiForwardProcess \/ BiBackwardPop \/ BiExhaust
                    \/ Return)

\* ------------------------------------------------ the editor and playback
\* start_search: goal = self.goal_nodes[0]
FirstGoal(gs) == IF gs = <<>> THEN None ELSE gs[1]

\* list.remove
Without(seq, n) == SelectSeq(seq, LAMBDA x : x # n)

Editing == editor /\ gen.pc \in {"idle", "done"}

\* one more editing operation
Edit ==
    /\ Editing /\ edits < MaxEdits
    /\ edits' = edits + 1
    /\ UNCHANGED <<log, first, runs, cursor>>

\* json.dumps turns the int key of a node into a string; int() turns it back
JsonKey(n) == <<"str", n>>
IntOf(k) == k[2]

\* Node.to_dict of a node without custom_name
to_dict(n) ==
    [name |-> n, x |-> pos[n][1], y |-> pos[n][2], heuristic |-> heuristic[n],
     state |-> state[n],
     neighbors |-> [i \in 1..Len(neighbors[n]) |->
                       [key |-> JsonKey(neighbors[n][i].node),
                        weight |-> neighbors[n][i].weight]]]

\* self.node_counter: the nodes are numbered as they are added, none is deleted
node_counter == Len(graph) + 1

\* the state save_state and undo serialize: the nodes in the order of
\* self.nodes, node_counter, the source's name and the goals' names
Snapshot ==
    [nodes |-> [i \in 1..Len(graph) |-> [key |-> JsonKey(graph[i]), data |-> to_dict(graph[i])]],
     node_counter |-> node_counter,
     source |-> source,
     goals |-> goal_nodes]

\* the graph an edit and an undo are about: nodes, weighted edges, source, goals
Graph ==
    [graph |-> graph, neighbors |-> neighbors, heuristic |-> heuristic,
     source |-> source, goal_nodes |-> goal_nodes]

\* main.py: the undo stack holds at most 50 states
UndoLimit == 50

\* GraphVisualizer.save_state, called at the end of an edit: the state pushed
\* is the one the edit has made
save_state ==
    undo' = [stack |-> LET st == Append(undo.stack, Snapshot')
                       IN IF Len(st) > UndoLimit THEN Tail(st) ELSE st,
             redo |-> <<>>,
             before |-> Graph,
             after |-> Graph',
             last |-> "edit"]

\* GraphVisualizer.toggle_source
ToggleSource(n) ==
    /\ Edit
    /\ IF state[n] = "source"
       THEN /\ state' = [state EXCEPT ![n] = "empty"]
            /\ source' = None
            /\ UNCHANGED <<goal_nodes, goal>>
       ELSE /\ goal_nodes' = Without(goal_nodes, n)
            /\ goal' = FirstGoal(Without(goal_nodes, n))
            /\ state' = [m \in Nodes |-> IF m = n THEN "source"
                                          ELSE IF m = source THEN "empty" ELSE state[m]]
            /\ source' = n
    /\ UNCHANGED <<neighbors, pos, heuristic, graph, menu, track, keep, logging, editor>>
    /\ UNCHANGED <<parent, cost, agent, gen, dirty, hist>>
    /\ save_state

\* GraphVisualizer.toggle_goal
ToggleGoal(n) ==
    /\ Edit
    /\ IF state[n] = "goal"
       THEN /\ state' = [state EXCEPT ![n] = "empty"]
            /\ goal_nodes' = Without(goal_nodes, n)
            /\ goal' = FirstGoal(Without(goal_nodes, n))
       ELSE IF state[n] = "source"
       THEN UNCHANGED <<state, goal_nodes, goal>>
       ELSE /\ state' = [state EXCEPT ![n] = "goal"]
            /\ goal_nodes' = Append(goal_nodes, n)
            /\ goal' = FirstGoal(Append(goal_nodes, n))
    /\ UNCHANGED <<neighbors, pos, heuristic, graph, source, menu, track, keep, logging,
                   editor>>
    /\ UNCHANGED <<parent, cost, agent, gen, dirty, hist>>
    /\ IF state[n] = "source" THEN UNCHANGED undo ELSE save_state

\* what step_forward and step_backward (and the timer's animate_next_step) do
\* once they moved the index
ShowState(i) ==
    /\ cursor' = i
    /\ state' = restore_node_states(state, log[i + 1].state)
    /\ UNCHANGED <<graphVars, parent, cost, agent, gen, dirty, hist, log, first, runs, edits,
                   undo>>

\* GraphVisualizer.step_forward
StepForward ==
    /\ Editing /\ log # <<>> /\ cursor < Len(log) - 1
    /\ ShowState(cursor + 1)

\* GraphVisualizer.step_backward
StepBackward ==
    /\ Editing /\ log # <<>> /\ cursor > 0
    /\ ShowState(cursor - 1)

\* the editor with a source and a goal set, nothing run yet
InitEditor ==
    \E es \in EdgeSets(Pairs(SmallNodes), MaxEdges - 1) :
    \E s \in 1..SmallNodes : \E g \in (1..SmallNodes) \ {s} :
        InitBase(TRUE, [n \in Nodes |-> <<n, 0>>], 1..SmallNodes, es, [e \in es |-> 1],
                 ZeroHeuristic, s, g, <<g>>, {"bfs"}, {}, FALSE, TRUE)

NextEditor ==
    \/ BfsStart \/ BfsPop \/ BfsProcess \/ BfsExhaust \/ Return
    \/ \E n \in 1..SmallNodes : ToggleSource(n)
    \/ \E n \in 1..SmallNodes : ToggleGoal(n)
    \/ StepForward
    \/ StepBackward

SpecEditor == InitEditor /\ [][NextEditor]_vars

\* C23 (as stated): whatever the order of toggling source and goal, starting
\* a search and stepping through its playback, at most one node has state
\* source.
C23_AtMostOneSource == Cardinality({n \in Nodes : state[n] = "source"}) <= 1

\* what holds instead: one source at most as long as editing and playback are
\* not mixed
OneSourceUnmixed == (runs = 0 \/ edits = 0) => C23_AtMostOneSource

\* ------------------------------------------------------- the parent links
\* weighted graphs with heuristics, and unweighted graphs with self loops
SpecTree == (InitSmall \/ InitLoops) /\ [][Next]_vars

ParentSetting == {"bfs", "dfs", "dls", "ids", "ucs", "greedy", "astar"}

\* the parent links from n, n first; one entry more than there are nodes
\* when the links run into a cycle
LinksFrom(n) == ParentChain(parent, n, NumNodes + 1)

\* C24: at every observation point of a run of BFS, DFS, DLS, IDS, UCS, greedy
\* or A*, on graphs with cycles too, the parent links form a tree rooted at
\* the source: no chain of parent links repeats a node, the source has no
\* parent, and the chain of every visited node ends at the source.
C24_ParentsFormTree ==
    gen.alg \in ParentSetting /\ gen.pc # "idle" =>
        /\ \A n \in Nodes :
              /\ Len(LinksFrom(n)) <= NumNodes
              /\ Cardinality(Range(LinksFrom(n))) = Len(LinksFrom(n))
        /\ parent[source] = None
        /\ \A n \in Range(agent.visited_list) :
              LinksFrom(n)[Len(LinksFrom(n))] = source

\* a run on a graph with a cycle through the source has visited a node two
\* links away from the source, and a neighbor of that node leads back
C24_Witness ==
    /\ gen.alg \in ParentSetting /\ Running
    /\ \E n \in gen.visited :
          /\ Len(LinksFrom(n)) = 3
          /\ source \in Succ(n)

\* C24 (amended): at every observation point of a run of a parent-setting
\* algorithm the parent links never contain a cycle, the source has no
\* parent, and every node of the visited set that guards the parent
\* assignments (for IDS the set of the current iteration, line 398) has a
\* chain that ends at the source.
TreeWithinIteration ==
    gen.alg \in ParentSetting /\ gen.pc # "idle" =>
        /\ \A n \in Nodes :
               /\ Len(LinksFrom(n)) <= NumNodes
               /\ Cardinality(Range(LinksFrom(n))) = Len(LinksFrom(n))
        /\ parent[source] = None
        /\ \A n \in gen.visited : LinksFrom(n)[Len(LinksFrom(n))] = source

\* the algorithms that do not order their frontier by cost
CostIgnoring == {"bfs", "dfs", "dls", "ids", "bidirectional"}

\* C25: in BFS, DFS, DLS, IDS and bidirectional search every node listed in
\* the fringe carries in its cost field the weight of its path from the source
\* (of its parent chain, where the algorithm sets parents), and when a run has
\* ended with success the cost field of the goal reached equals path_cost.
C25_CostIsPopulated ==
    gen.alg \in CostIgnoring =>
        /\ gen.alg # "bidirectional" =>
              \A n \in Range(agent.fringe_list) :
                  cost[n] = PathWeight(Reverse(LinksFrom(n)))
        /\ Ended /\ agent.success =>
              cost[agent.path_found[Len(agent.path_found)]] = agent.path_cost

\* What holds in place of C25: these algorithms never write a cost field.
CostNeverWritten ==
    gen.alg \in CostIgnoring => \A n \in Nodes : cost[n] = 0

\* a run of such an algorithm has ended with success on a path that has a cost
CostNeverWrittenSeen ==
    /\ gen.alg \in CostIgnoring /\ Ended /\ agent.success
    /\ agent.path_cost > 0

\* the observation point between the pop of a node and its processing
JustPopped == gen.pc \in {"popped", "fpopped", "bpopped"}

ShownAsVisited(n) == state[n] \in {"visited", "source", "goal"}

\* C26: in every algorithm the step that pops a node marks it and leaves the
\* visited list, the traversal list and nodes_explored as they were; at the
\* observation point that follows, the node carries state visited (or its
\* source/goal state); the next step appends the node to both lists and adds
\* one to nodes_explored; and the lists grow in no other step. So every node
\* is observed as visited before its first entry in the lists.
C26_ObservedBeforeRecorded ==
    [][/\ JustPopped' /\ ~JustPopped =>
             /\ state'[gen'.current] \in {"visited", "source", "goal"}
             /\ agent'.visited_list = agent.visited_list
             /\ agent'.traversal_array = agent.traversal_array
             /\ agent'.nodes_explored = agent.nodes_explored
       /\ JustPopped =>
             /\ ShownAsVisited(gen.current)
             /\ agent'.visited_list = Append(agent.visited_list, gen.current)
             /\ agent'.traversal_array = Append(agent.traversal_array, gen.current)
             /\ agent'.nodes_explored = agent.nodes_explored + 1
       /\ Len(agent'.visited_list) > Len(agent.visited_list) => JustPopped]_vars

\* a node other than source and goal is shown as visited after its pop, before
\* it is listed, in a run that has listed another node already
C26_Witness ==
    /\ JustPopped /\ state[gen.current] = "visited"
    /\ gen.current \notin Range(agent.visited_list)
    /\ agent.nodes_explored >= 1

\* a node is popped that the visited list holds already from an earlier pop
\* (a later iteration of IDS, the second direction of bidirectional search)
PoppedAgain ==
    JustPopped /\ gen.current \in Range(agent.visited_list)

Preserved == {"source", "goal"}

\* C27: no step of a run of any algorithm changes the state of a node whose
\* state is source or goal, and at the final observation of a successful run
\* every node of the reported path that is not such a node has state path.
C27_SourceGoalKeptPathMarked ==
    [][/\ \A n \in Nodes : state[n] \in Preserved => state'[n] = state[n]
       /\ gen'.pc = "final" /\ agent'.success =>
             \A n \in Range(agent'.path_found) :
                 state'[n] \notin Preserved => state'[n] = "path"]_vars

\* a run has ended with success on a path with an inner node, which is marked
\* path, between a source and a goal that kept their states
C27_Witness ==
    /\ gen.pc = "final" /\ agent.success /\ Len(agent.path_found) >= 3
    /\ state[agent.path_found[2]] = "path"
    /\ state[agent.path_found[1]] = "source"
    /\ state[agent.path_found[Len(agent.path_found)]] = "goal"

\* C28: at every observation point of every run the reported path is empty
\* while success is false and non-empty when success is true, success is set
\* only at the final observation, and a run that ends in failure ends with an
\* empty path.
C28_PathIffSuccess ==
    /\ agent.success <=> agent.path_found # <<>>
    /\ agent.success => Ended
    /\ Ended /\ ~agent.success => agent.path_found = <<>>

\* a run has ended with success and reports a path of two or more nodes
C28_Witness ==
    /\ gen.pc = "final" /\ agent.success /\ Len(agent.path_found) >= 2

\* a run that visited two or more nodes has ended in failure
FailedRunEnded ==
    /\ gen.pc = "final" /\ ~agent.success /\ agent.nodes_explored >= 2

\* C29: at every observation point of every run the traversal list equals
\* the visited list and nodes_explored is the length of the visited list.
C29_TraversalIsVisited ==
    /\ agent.traversal_array = agent.visited_list
    /\ agent.nodes_explored = Len(agent.visited_list)

\* a run in progress has listed three or more visits, one node twice
C29_Witness ==
    /\ Running /\ Len(agent.visited_list) >= 3
    /\ Cardinality(Range(agent.visited_list)) < Len(agent.visited_list)

\* frontier.get_all_nodes() as the fringe lists it: the node names in order
LiveFrontier ==
    CASE gen.alg \in {"bfs", "dfs"} -> gen.frontier
      [] gen.alg \in {"dls", "ids"} -> tuple_nodes(gen.frontier)
      [] gen.alg \in {"ucs", "greedy", "astar"} -> pq_nodes(gen.frontier)
      [] gen.alg = "bidirectional" -> gen.frontier \o gen.backward
      [] OTHER -> <<>>

\* C30: in every algorithm, bidirectional search included, at the observation
\* point that follows a pop the fringe snapshot is the ordered content of the
\* live frontier(s) after the pop.
C30_FringeFollowsPop ==
    JustPopped => agent.fringe_list = LiveFrontier

\* What holds in place of C30: with one frontier the snapshot follows the pop;
\* in bidirectional search the snapshot is still the one taken before the pop
\* and lists the popped node.
FringeFollowsPopButBidirectional ==
    /\ JustPopped /\ gen.alg # "bidirectional" => agent.fringe_list = LiveFrontier
    /\ gen.pc = "fpopped" =>
          agent.fringe_list = <<gen.current>> \o gen.frontier \o gen.backward
    /\ gen.pc = "bpopped" =>
          agent.fringe_list = gen.frontier \o <<gen.current>> \o gen.backward

\* a pop of a frontier that held two or more entries, in a run with one frontier
FringeFollowsPopSeen ==
    /\ JustPopped /\ gen.alg # "bidirectional"
    /\ agent.fringe_list # <<>>

\* bidirectional search is between two steps (not after a pop, not ended)
BiBetweenSteps ==
    gen.alg = "bidirectional" /\ gen.pc \in {"seeded", "bexpanded", "fexpanded"}

\* C31: in bidirectional search a forward step is followed by a backward step
\* and a backward step by a forward step, and while one of the two frontiers
\* still holds a node the search goes on with a pop (of the direction that is
\* not exhausted) instead of stopping.
C31_StepsAloneWhenOneExhausted ==
    [][/\ BiBetweenSteps /\ gen.pc = "fexpanded" /\ gen.backward # <<>> =>
             gen'.pc = "bpopped"
       /\ BiBetweenSteps /\ gen.pc # "fexpanded" /\ gen.frontier # <<>> =>
             gen'.pc = "fpopped"
       /\ BiBetweenSteps /\ (gen.frontier # <<>> \/ gen.backward # <<>>) =>
             gen'.pc \in {"fpopped", "bpopped"}]_vars

\* What holds in place of C31: the steps alternate while both frontiers hold
\* nodes; after a forward step the backward step still runs; at the top of
\* the loop the run ends in failure as soon as either frontier is empty.
BiStopsWhenOneExhausted ==
    [][/\ BiBetweenSteps /\ gen.pc = "fexpanded" => gen'.pc = "bpopped"
       /\ BiBetweenSteps /\ gen.pc # "fexpanded" /\ BiLoopHolds => gen'.pc = "fpopped"
       /\ BiBetweenSteps /\ gen.pc # "fexpanded" /\ ~BiLoopHolds =>
             gen'.pc = "final" /\ ~agent'.success]_vars

\* the run has stopped in failure while one frontier still holds a node
BiStoppedWithNodesLeft ==
    /\ gen.alg = "bidirectional" /\ gen.pc = "final" /\ ~agent.success
    /\ (gen.frontier # <<>> \/ gen.backward # <<>>)

\* ------------------------------------------------- greedy on 4-node graphs
\* graphs on MidNodes nodes with up to MaxEdges unit edges and every heuristic
\* 0..MaxHeur; greedy best-first search, and uniform-cost search beside it
InitGreedy ==
    \E es \in EdgeSets(Pairs(MidNodes), MaxEdges) :
    \E h \in [1..MidNodes -> 0..MaxHeur] :
    \E s \in 1..MidNodes : \E g \in (1..MidNodes) \ {s} :
        InitWith(es, [e \in es |-> 1], [n \in Nodes |-> IF n <= MidNodes THEN h[n] ELSE 0],
                 s, g, <<g>>, {"greedy", "ucs"}, {"greedy", "ucs"})

NextGreedy ==
    \/ GreedyStart \/ GreedyPop \/ GreedyProcess \/ GreedyExhaust
    \/ UcsStart \/ UcsPop \/ UcsProcess \/ UcsExhaust
    \/ Return

SpecGreedy == InitGreedy /\ [][NextGreedy]_vars

\* greedy has popped a node that is no goal and admits no neighbor, while the
\* frontier holds entries queued by the expansion of an earlier node
GreedyNoAdmitWithEntries ==
    /\ gen.alg = "greedy" /\ gen.pc = "popped"
    /\ ~is_goal(gen.current)
    /\ unvisited_neighbors(gen.current, gen.visited \cup {gen.current}, gen.frontier) = <<>>
    /\ gen.frontier # <<>>

\* C32: on the graph shapes where a popped node admits no neighbor while the
\* frontier still holds entries of an earlier expansion, the dead-end rule of
\* greedy best-first search ends the run as a failure with those entries
\* not popped.
C32_DeadEndLeavesEntries ==
    [][GreedyNoAdmitWithEntries =>
          gen'.pc = "final" /\ ~agent'.success /\ gen'.frontier # <<>>]_vars

\* C32 (amended): on no graph does the dead-end rule end the run while the
\* frontier holds entries: where a popped node admits no neighbor and entries
\* of an earlier expansion are queued, the run goes on with the frontier as
\* it is, and every failing step of greedy leaves an empty frontier.
C32_DeadEndOnlyOnEmptyFrontier ==
    [][/\ GreedyNoAdmitWithEntries =>
             /\ gen'.pc = "expanded"
             /\ gen'.frontier = gen.frontier
             /\ agent'.failure_reason = "None"
       /\ gen.alg = "greedy" /\ gen.pc = "popped" /\ gen'.pc = "final" /\ ~agent'.success =>
             gen'.frontier = <<>>]_vars

\* greedy went on after a node that admitted no neighbor: the frontier still
\* lists an entry of an earlier expansion
C32_Witness ==
    /\ gen.alg = "greedy" /\ gen.pc = "expanded"
    /\ gen.frontier # <<>>
    /\ unvisited_neighbors(gen.current, gen.visited \ {gen.current}, <<>>) = <<>>
    /\ parent[pq_front(gen.frontier)] # gen.current

\* -------------------------------------------------------- insertion order
\* the orders in which the entries of a dict can have been inserted
Perms(s) == {p \in [1..Len(s) -> Range(s)] : Range(p) = Range(s)}

\* the same graph built again with another insertion order: the neighbors of
\* one node added in another order (Node.add_neighbor), or the nodes put into
\* the graph mapping in another order; positions, heuristics, weights and
\* edges are as before. The second logged run is on the graph built last.
Reinsert ==
    /\ logging /\ runs = 1 /\ gen.pc = "done"
    /\ \/ /\ \E n \in Nodes : \E p \in Perms(neighbors[n]) \ {neighbors[n]} :
                neighbors' = [neighbors EXCEPT ![n] = p]
          /\ UNCHANGED graph
       \/ /\ \E p \in Perms(graph) \ {graph} : graph' = p
          /\ UNCHANGED neighbors
    /\ UNCHANGED <<pos, heuristic, source, goal, goal_nodes, menu, track, keep, logging,
                   editor, nodeVars, agent, gen, dirty, hist, obsVars>>

\* 3-node graphs of up to MaxEdges - 1 edges, each node on one of the
\* GridSize + 2 spots of a line (two nodes on one spot included), unit
\* weights, every algorithm
InitOrder ==
    \E es \in EdgeSets(Pairs(SmallNodes), MaxEdges - 1) :
    \E x \in [1..SmallNodes -> 0..(GridSize + 1)] :
    \E g \in 2..SmallNodes :
        InitPlaced([n \in Nodes |-> IF n <= SmallNodes THEN <<x[n], 0>> ELSE <<0, 0>>],
                   1..SmallNodes, es, [e \in es |-> 1], ZeroHeuristic,
                   1, g, <<g>>, Algorithms, {}, FALSE, TRUE)

NextOrder == Next \/ Reinsert

SpecOrder == InitOrder /\ [][NextOrder]_vars

\* no two nodes of the graph are on the same spot
PlacedApart == \A n, m \in Range(graph) : n # m => pos[n] # pos[m]

\* C33: for every algorithm, two runs on graphs with the same nodes,
\* positions, heuristics and weighted edges that differ only in the insertion
\* order of nodes and of neighbors show the same visit order, fringe
\* snapshots and path at every observation point.
C33_InsertionOrderIrrelevant == TwoRunsDone => SameShown(first, log)

\* What holds in place of C33: the runs agree when no two nodes share a spot.
OrderIrrelevantWhenPlacedApart == TwoRunsDone /\ PlacedApart => SameShown(first, log)

\* two runs that expanded a node with two neighbors, on graphs with different
\* insertion orders of these neighbors and all nodes on different spots
OrderIrrelevantSeen ==
    /\ TwoRunsDone /\ PlacedApart
    /\ \E n \in Range(agent.visited_list) :
          /\ Len(neighbors[n]) = 2
          /\ neighbors[n][1].node > neighbors[n][2].node
          /\ ~is_goal(n)

\* ---------------------------------------------------------------------------
\* Undo in the editor
\* ---------------------------------------------------------------------------

\* Node.add_neighbor: self.neighbors[neighbor] = weight, a dict in insertion
\* order (an existing key keeps its place)
add_neighbor(ns, m, w) ==
    IF \E i \in 1..Len(ns) : ns[i].node = m
    THEN [i \in 1..Len(ns) |-> IF ns[i].node = m THEN [node |-> m, weight |-> w] ELSE ns[i]]
    ELSE Append(ns, [node |-> m, weight |-> w])

\* Node.remove_neighbor
remove_neighbor(ns, m) == SelectSeq(ns, LAMBDA e : e.node # m)

\* GraphVisualizer.add_edge on a directed graph, with the default weight 1
AddEdge(a, b) ==
    /\ Edit
    /\ a # b
    /\ neighbors' = [neighbors EXCEPT ![a] = add_neighbor(neighbors[a], b, 1)]
    /\ UNCHANGED <<pos, heuristic, graph, source, goal, goal_nodes, menu, track, keep, logging,
                   editor>>
    /\ UNCHANGED <<nodeVars, agent, gen, dirty, hist>>
    /\ save_state

\* GraphVisualizer.delete_edge on a directed graph
DeleteEdge(a, b) ==
    /\ Edit
    /\ neighbors' = [neighbors EXCEPT ![a] = remove_neighbor(neighbors[a], b)]
    /\ UNCHANGED <<pos, heuristic, graph, source, goal, goal_nodes, menu, track, keep, logging,
                   editor>>
    /\ UNCHANGED <<nodeVars, agent, gen, dirty, hist>>
    /\ save_state

\* GraphVisualizer.set_heuristic
SetHeuristic(n, v) ==
    /\ Edit
    /\ heuristic' = [heuristic EXCEPT ![n] = v]
    /\ UNCHANGED <<neighbors, pos, graph, source, goal, goal_nodes, menu, track, keep, logging,
                   editor>>
    /\ UNCHANGED <<nodeVars, agent, gen, dirty, hist>>
    /\ save_state

\* GraphVisualizer.set_edge_weight on a directed graph
SetEdgeWeight(a, b, w) ==
    /\ Edit
    /\ HasEdge(a, b)
    /\ neighbors' = [neighbors EXCEPT ![a] = add_neighbor(neighbors[a], b, w)]
    /\ UNCHANGED <<pos, heuristic, graph, source, goal, goal_nodes, menu, track, keep, logging,
                   editor>>
    /\ UNCHANGED <<nodeVars, agent, gen, dirty, hist>>
    /\ save_state

\* the entry of node n in a decoded snapshot
DataOf(s, n) == s.nodes[CHOOSE i \in 1..Len(s.nodes) : IntOf(s.nodes[i].key) = n].data

Restored(s) == {IntOf(s.nodes[i].key) : i \in 1..Len(s.nodes)}

\* GraphVisualizer.undo: the current state goes on the redo stack and the top
\* of the undo stack is restored (restore_state builds new Node objects from
\* the snapshot, so parent and cost start again at None and 0)
Undo ==
    /\ Editing
    /\ Len(undo.stack) > 0
    /\ LET s == undo.stack[Len(undo.stack)]
       IN /\ graph' = [i \in 1..Len(s.nodes) |-> IntOf(s.nodes[i].key)]
          /\ pos' = [n \in Nodes |-> IF n \in Restored(s)
                                     THEN <<DataOf(s, n).x, DataOf(s, n).y>> ELSE pos[n]]
          /\ heuristic' = [n \in Nodes |-> IF n \in Restored(s)
                                           THEN DataOf(s, n).heuristic ELSE heuristic[n]]
          /\ state' = [n \in Nodes |-> IF n \in Restored(s) THEN DataOf(s, n).state ELSE state[n]]
          /\ neighbors' = [n \in Nodes |->
                IF n \in Restored(s)
                THEN LET d == DataOf(s, n).neighbors
                     IN [j \in 1..Len(d) |-> [node |-> IntOf(d[j].key), weight |-> d[j].weight]]
                ELSE neighbors[n]]
          /\ parent' = [n \in Nodes |-> IF n \in Restored(s) THEN None ELSE parent[n]]
          /\ cost' = [n \in Nodes |-> IF n \in Restored(s) THEN 0 ELSE cost[n]]
          /\ source' = s.source
          /\ goal_nodes' = s.goals
          /\ goal' = FirstGoal(s.goals)
    /\ undo' = [undo EXCEPT !.stack = SubSeq(undo.stack, 1, Len(undo.stack) - 1),
                            !.redo = Append(undo.redo, Snapshot),
                            !.last = IF undo.last = "edit" THEN "undo" ELSE "later"]
    /\ UNCHANGED <<menu, track, keep, logging, editor, agent, gen, dirty, hist,
                   log, first, runs, cursor, edits>>

\* the editor with a small weighted graph, a source and a goal
InitUndo ==
    \E es \in EdgeSets(Pairs(SmallNodes), MaxEdges - 1) :
    \E s \in 1..SmallNodes : \E g \in (1..SmallNodes) \ {s} :
        InitBase(TRUE, [n \in Nodes |-> <<n, 0>>], 1..SmallNodes, es, [e \in es |-> 1],
                 ZeroHeuristic, s, g, <<g>>, {}, {}, FALSE, FALSE)

NextUndo ==
    \/ \E a, b \in 1..SmallNodes : AddEdge(a, b)
    \/ \E a, b \in 1..SmallNodes : DeleteEdge(a, b)
    \/ \E a, b \in 1..SmallNodes : \E w \in 1..MaxWeight : SetEdgeWeight(a, b, w)
    \/ \E n \in 1..SmallNodes : \E v \in 0..MaxHeur : SetHeuristic(n, v)
    \/ \E n \in 1..SmallNodes : ToggleSource(n)
    \/ \E n \in 1..SmallNodes : ToggleGoal(n)
    \/ Undo

SpecUndo == InitUndo /\ [][NextUndo]_vars

\* C34 (as stated): after an edit that records an undo state followed by a
\* single undo, the graph (nodes, weighted edges, heuristics, source, goals)
\* equals the graph as it was before that edit.
C34_UndoRestoresBefore == undo.last = "undo" => Graph = undo.before

\* what the code does: save_state runs at the end of the edit, so the state
\* on top of the stack is the one the edit made, and a single undo leaves the
\* graph as it was after the edit
UndoOnceKeepsEdit == undo.last = "undo" => Graph = undo.after

\* an edit that changed the graph, followed by a single undo
UndoOnceSeen == undo.last = "undo" /\ undo.before # undo.after

\* ---------------------------------------------------------------------------
\* Costs along the parent links
\* ---------------------------------------------------------------------------

CostAlgs == {"ucs", "greedy", "astar"}

CostFollowsParent(n) == cost[n] = cost[parent[n]] + get_weight(parent[n], n)

\* C35: in UCS, greedy best-first and A*, at every observation point each
\* node that has a parent has cost equal to its parent's cost plus the weight
\* of the edge parent -> node, and on success the reported path_cost equals
\* the goal node's cost.
C35_CostFollowsParents ==
    gen.alg \in CostAlgs =>
        /\ \A n \in Nodes : parent[n] # None => CostFollowsParent(n)
        /\ agent.success => agent.path_cost = cost[goal]

\* a successful run of a cost algorithm over at least two edges, one of them
\* heavier than 1
C35_Witness ==
    /\ gen.alg \in CostAlgs /\ agent.success
    /\ Len(agent.path_found) >= 3
    /\ agent.path_cost > Len(agent.path_found) - 1
    /\ agent.path_cost = cost[goal]

\* ---------------------------------------------------------------------------
\* The visited list of one run
\* ---------------------------------------------------------------------------

OneVisitAlgs == {"bfs", "dfs", "dls", "ucs", "greedy", "astar"}

\* the six algorithms on the sparse cyclic graphs of MidNodes nodes
NextVisit ==
    \/ BfsStart \/ BfsPop \/ BfsProcess \/ BfsExhaust
    \/ DfsStart \/ DfsPop \/ DfsProcess \/ DfsExhaust
    \/ \E d \in 0..MaxDepth : DlsStart(d)
    \/ DlsPop \/ DlsProcess \/ DlsExhaust
    \/ UcsStart \/ UcsPop \/ UcsProcess \/ UcsExhaust
    \/ GreedyStart \/ GreedyPop \/ GreedyProcess \/ GreedyExhaust
    \/ AStarStart \/ AStarPop \/ AStarProcess \/ AStarExhaust
    \/ Return

InitVisit ==
    \E es \in EdgeSets(Pairs(MidNodes), MaxEdges) :
    \E s \in 1..MidNodes : \E g \in (1..MidNodes) \ {s} :
        InitWith(es, [e \in es |-> 1], ZeroHeuristic, s, g, <<g>>, OneVisitAlgs, {})

SpecVisit == InitVisit /\ [][NextVisit]_vars

Occurrences(seq, n) == Cardinality({i \in 1..Len(seq) : seq[i] = n})

\* C36: in BFS, DFS, DLS, UCS, greedy best-first and A* the visited list of a
\* single run never contains the same node twice, on any graph, cyclic graphs
\* and graphs where a node is reachable along several paths included.
C36_VisitedListHasNoRepeat ==
    gen.alg \in OneVisitAlgs => \A n \in Nodes : Occurrences(agent.visited_list, n) <= 1

\* a run of one of these algorithms that reached, and left aside, a node it
\* had already visited: a neighbor of the node just expanded was visited
\* before it, and that neighbor was reached along two edges
C36_Witness ==
    /\ gen.alg \in OneVisitAlgs
    /\ gen.pc = "expanded"
    /\ \E m \in Range(agent.visited_list) \ {gen.current} :
          /\ HasEdge(gen.current, m)
          /\ \E k \in Nodes \ {gen.current} : HasEdge(k, m)

\* ---------------------------------------------------------------------------
\* The counters of iterative deepening
\* ---------------------------------------------------------------------------

\* the iterations started so far in which the source has been visited
SourceVisits == gen.limit + (IF source \in gen.visited THEN 1 ELSE 0)

\* C37: in iterative-deepening search the visited list and nodes_explored are
\* not cleared between depth iterations: nodes_explored equals the number of
\* node visits of all iterations run, and the source is in the visited list
\* once per iteration started (once its visit in that iteration is recorded).
C37_CountersSpanIterations ==
    gen.alg = "ids" =>
        /\ agent.nodes_explored = Len(agent.visited_list)
        /\ Occurrences(agent.visited_list, source) = SourceVisits
        /\ gen.pc \in {"final", "done"} /\ goal # None =>
               Occurrences(agent.visited_list, source) = gen.limit + 1

\* a run of iterative deepening that ended in its third iteration or later
\* and visited more nodes than the source
C37_Witness ==
    /\ gen.alg = "ids" /\ gen.pc = "final"
    /\ gen.limit >= 2
    /\ Occurrences(agent.visited_list, source) = gen.limit + 1
    /\ agent.nodes_explored > gen.limit + 2

\* ---------------------------------------------------------------------------
\* How a run of greedy best-first search fails
\* ---------------------------------------------------------------------------

\* C38: every failing run of greedy best-first search ends through the
\* dead-end branch; the exit of the loop with the reason of exhaustion is
\* unreachable, because a popped node is never already visited and the
\* frontier is never empty at the head of the loop.
C38_GreedyFailsOnlyAtDeadEnd ==
    gen.alg = "greedy" =>
        /\ Ended /\ goal # None /\ ~agent.success => agent.failure_reason = StuckDeadEnd
        /\ agent.failure_reason # Exhausted
        /\ gen.pc = "popped" => gen.current \notin gen.visited
        /\ AtLoopTop => /\ gen.frontier # <<>>
                        /\ \A n \in Range(pq_nodes(gen.frontier)) : n \notin gen.visited

\* a failing run of greedy that visited three nodes, one of them with two
\* incoming edges, before the dead end
C38_Witness ==
    /\ gen.alg = "greedy" /\ gen.pc = "final" /\ ~agent.success
    /\ Len(agent.visited_list) >= 3
    /\ \E n \in Range(agent.visited_list) :
          Cardinality({m \in Range(agent.visited_list) : HasEdge(m, n)}) >= 2

\* ---------------------------------------------------------------------------
\* The path of depth-limited search
\* ---------------------------------------------------------------------------

PathEdges == Len(agent.path_found) - 1

\* C39: whenever depth-limited search with limit L ends with success, the
\* reported path has at most L edges (it has as many edges as the depth at
\* which the goal was popped).
C39_PathWithinLimit ==
    gen.alg = "dls" /\ agent.success =>
        /\ PathEdges <= gen.param
        /\ PathEdges = gen.depth

\* a successful run whose path uses the whole limit, on a graph where the
\* goal was pushed a second time by a deeper node
C39_Witness ==
    /\ gen.alg = "dls" /\ agent.success
    /\ gen.param >= 2
    /\ PathEdges = gen.param
    /\ Cardinality({m \in Range(agent.visited_list) : HasEdge(m, goal)}) >= 2

\* ---------------------------------------------------------------------------
\* The merged path of bidirectional search
\* ---------------------------------------------------------------------------

\* the forward chain, source to meeting node, and the backward chain after
\* the meeting node, as the run that just met left them
ForwardChain == Reverse(MapChain(gen.forward_visited, gen.current, NumNodes + 1))
BackwardChain ==
    MapChain(gen.backward_visited, gen.backward_visited[gen.current], NumNodes + 1)

\* C40: whenever bidirectional search ends with success, on any directed
\* graph, the merged path contains no node twice: the forward chain and the
\* backward chain share no node.
C40_MergedPathHasNoRepeat ==
    gen.alg = "bidirectional" /\ agent.success =>
        /\ \A n \in Nodes : Occurrences(agent.path_found, n) <= 1
        /\ agent.path_found = ForwardChain \o BackwardChain
        /\ Range(ForwardChain) \cap Range(BackwardChain) = {}

\* a successful run on a graph with a cycle whose two chains both have an
\* edge
C40_Witness ==
    /\ gen.alg = "bidirectional" /\ agent.success
    /\ Len(ForwardChain) >= 2 /\ Len(BackwardChain) >= 1
    /\ Len(agent.path_found) >= 3
    /\ \E n \in Range(agent.path_found) : \E m \in Nodes : HasEdge(n, m) /\ HasEdge(m, n)
====
